---- MODULE Spec2Model ----
(***************************************************************************)
(* OpenCrust: the Session Store's scheduled tasks, the schedule_heartbeat  *)
(* tool, and the Agent Runtime's provider fallback and tool loop.          *)
(*                                                                         *)
(* Time is counted in ticks, TicksPerSec to the second, so that instants   *)
(* between two whole seconds exist.  A task id (a UUID in the program) is  *)
(* the row's position in the tasks sequence.  A NULL column is NULL.       *)
(***************************************************************************)
EXTENDS Integers, Sequences, FiniteSets, TLC

VARIABLES
    sessions,       \* ids of the rows of table sessions
    tasks,          \* rows of table scheduled_tasks, by id
    now,            \* the wall clock (chrono::Utc::now, datetime('now'))
    polled,         \* the batch the last poll_due_tasks returned
    ret,            \* the last call and what it returned
    turn            \* the Agent Runtime's turn in progress

vars == <<sessions, tasks, now, polled, ret, turn>>

storeVars == <<sessions, tasks, now, polled>>

----------------------------------------------------------------------------
(* Program constants *)

MAX_DELAY_SECONDS == 2592000
MAX_PENDING_PER_SESSION == 20
MAX_HEARTBEAT_DEPTH == 3
DEFAULT_MAX_RETRIES == 3
POLL_LIMIT == 10
BACKOFF_BASE_SECS == 30
BACKOFF_MAX_SHIFT == 7
MAX_TOOL_ITERATIONS == 10

(* Bounds of the model *)

MaxTasks == 2          \* rows of scheduled_tasks in Spec
ChainTasks == 2        \* rows of scheduled_tasks in SpecChain
QuotaExtra == 3        \* rows beyond the prefilled ones in SpecQuota
MaxProviders == 3      \* longest provider chain
TicksPerSec == 2       \* clock ticks to the second
MaxCtxDepth == 4       \* largest ToolContext.heartbeat_depth tried

NULL == 0 - 1

Sessions == {"s1", "s2"}
Terminal == {"completed", "failed", "cancelled"}

----------------------------------------------------------------------------
(* Helpers *)

Min(a, b) == IF a <= b THEN a ELSE b

RECURSIVE Pow2(_)
Pow2(n) == IF n = 0 THEN 1 ELSE 2 * Pow2(n - 1)

Secs(n) == n * TicksPerSec

\* SQLite's datetime(): the time with its fraction of a second dropped.
datetime(t) == t - (t % TicksPerSec)

due_at_execute_only(t) == t.execute_at

\* COALESCE(next_retry_at, execute_at)
due_at(t) == IF t.next_retry_at # NULL THEN t.next_retry_at ELSE t.execute_at

\* The row as poll_due_tasks and list_pending_tasks hand it out (struct ScheduledTask).
ScheduledTask(id) ==
    [id |-> id,
     session_id |-> tasks[id].session_id,
     execute_at |-> tasks[id].execute_at,
     retry_count |-> tasks[id].retry_count,
     max_retries |-> tasks[id].max_retries,
     heartbeat_depth |-> tasks[id].heartbeat_depth,
     recurrence_type |-> tasks[id].recurrence_type,
     recurrence_value |-> tasks[id].recurrence_value,
     recurrence_end_at |-> tasks[id].recurrence_end_at,
     timezone |-> tasks[id].timezone]

\* INSERT INTO scheduled_tasks ... 'pending'; the other columns take their defaults.
schedule_task_full(session_id, execute_at, heartbeat_depth, rtype, rvalue, end_at, timezone) ==
    Append(tasks,
        [session_id |-> session_id,
         execute_at |-> execute_at,
         status |-> "pending",
         retry_count |-> 0,
         max_retries |-> DEFAULT_MAX_RETRIES,
         next_retry_at |-> NULL,
         heartbeat_depth |-> heartbeat_depth,
         recurrence_type |-> rtype,
         recurrence_value |-> rvalue,
         recurrence_end_at |-> end_at,
         timezone |-> timezone])

count_pending_tasks_for_session(s) ==
    Cardinality({i \in DOMAIN tasks :
        tasks[i].session_id = s /\ tasks[i].status = "pending"})

----------------------------------------------------------------------------
(* poll_due_tasks *)

poll_where_any_status(i) ==
    /\ tasks[i].session_id \in sessions
    /\ datetime(due_at(tasks[i])) <= datetime(now)

poll_where(i) ==
    /\ tasks[i].session_id \in sessions               \* JOIN sessions
    /\ tasks[i].status = "pending"
    /\ datetime(due_at(tasks[i])) <= datetime(now)

poll_before_desc(i, j) ==
    \/ tasks[i].execute_at > tasks[j].execute_at
    \/ tasks[i].execute_at = tasks[j].execute_at /\ i < j

\* ORDER BY execute_at ASC; rows with equal execute_at come in rowid order.
poll_before(i, j) ==
    \/ tasks[i].execute_at < tasks[j].execute_at
    \/ tasks[i].execute_at = tasks[j].execute_at /\ i < j

RECURSIVE poll_order(_)
poll_order(S) ==
    IF S = {} THEN <<>>
    ELSE LET first == CHOOSE i \in S : \A j \in S \ {i} : poll_before(i, j)
         IN <<first>> \o poll_order(S \ {first})

poll_due_tasks ==
    LET ordered == poll_order({i \in DOMAIN tasks : poll_where(i)})
        batch == SubSeq(ordered, 1, Min(Len(ordered), POLL_LIMIT))
    IN [k \in 1..Len(batch) |-> ScheduledTask(batch[k])]

----------------------------------------------------------------------------
(* ScheduleHeartbeat::execute *)

depth_limit_reached_above_max(depth) == depth > MAX_HEARTBEAT_DEPTH

depth_limit_reached_at_max_only(depth) == depth = MAX_HEARTBEAT_DEPTH

\* if context.heartbeat_depth >= MAX_HEARTBEAT_DEPTH { return Err(..) }
depth_limit_reached(depth) == depth >= MAX_HEARTBEAT_DEPTH

quota_reached_in_any_session(session_id) ==
    Cardinality({i \in DOMAIN tasks : tasks[i].status = "pending"})
        >= MAX_PENDING_PER_SESSION

\* let pending = store.count_pending_tasks_for_session(&context.session_id)?;
\* if pending >= MAX_PENDING_PER_SESSION { return Err(..) }
quota_reached(session_id) ==
    count_pending_tasks_for_session(session_id) >= MAX_PENDING_PER_SESSION

\* The messages of the Error::Agent values execute returns, word by word.
DepthLimitMessage ==
    <<"heartbeat", "chain", "depth", "limit", "reached", "(max", "3).",
      "Cannot", "schedule", "further.">>

DelayNotPositiveMessage == <<"delay_seconds", "must", "be", "positive">>

DelayTooLongMessage ==
    <<"delay_seconds", "cannot", "exceed", "2592000", "(30", "days)">>

IntervalRangeMessage ==
    <<"interval_seconds", "must", "be", "between", "1", "and", "2592000">>

PendingLimitMessage(pending) ==
    <<"session", "already", "has", ToString(pending), "pending", "heartbeats",
      "(max", "20)">>

\* The early returns of execute, in the order of the code; <<>> when none is
\* taken.
schedule_heartbeat_error(session_id, depth, delay, rec, rvalue) ==
    IF depth_limit_reached(depth) THEN DepthLimitMessage
    ELSE IF delay <= 0 THEN DelayNotPositiveMessage
    ELSE IF delay > MAX_DELAY_SECONDS THEN DelayTooLongMessage
    ELSE IF rec = "interval" /\ (rvalue <= 0 \/ rvalue > MAX_DELAY_SECONDS)
         THEN IntervalRangeMessage
    ELSE IF quota_reached(session_id)
         THEN PendingLimitMessage(count_pending_tasks_for_session(session_id))
    ELSE <<>>

next_depth_unchanged(depth) == depth

\* let next_depth = context.heartbeat_depth.saturating_add(1);  (u8)
next_depth(depth) == Min(depth + 1, 255)

\* cap bounds the table: no row is inserted beyond it.
schedule_heartbeat(session_id, depth, delay, rec, rvalue, end_after, timezone, cap) ==
    LET err == schedule_heartbeat_error(session_id, depth, delay, rec, rvalue)
        execute_at == now + Secs(delay)
        end_at == IF end_after = NULL THEN NULL ELSE execute_at + Secs(end_after)
    IN IF err # <<>>
       THEN /\ ret' = [op |-> "schedule_heartbeat", session_id |-> session_id,
                       depth |-> depth, is_error |-> TRUE, error |-> err]
            /\ UNCHANGED <<storeVars, turn>>
       ELSE /\ Len(tasks) < cap
            /\ tasks' = schedule_task_full(session_id, execute_at, next_depth(depth),
                                           rec, rvalue, end_at, timezone)
            /\ ret' = [op |-> "schedule_heartbeat", session_id |-> session_id,
                       depth |-> depth, is_error |-> FALSE, id |-> Len(tasks) + 1]
            /\ UNCHANGED <<sessions, now, polled, turn>>

----------------------------------------------------------------------------
(* Session Store operations *)

upsert_session(session_id) ==
    /\ sessions' = sessions \cup {session_id}
    /\ ret' = [op |-> "upsert_session", session_id |-> session_id]
    /\ UNCHANGED <<tasks, now, polled, turn>>

PollDueTasks ==
    /\ polled' = poll_due_tasks
    /\ ret' = [op |-> "poll_due_tasks"]
    /\ UNCHANGED <<sessions, tasks, now, turn>>

complete_task_where_any_status(id) == TRUE

\* UPDATE ... SET status = 'completed' WHERE id = ?1 AND status = 'pending'
complete_task_where(id) == tasks[id].status = "pending"

complete_task(id) ==
    /\ tasks' = IF complete_task_where(id)
                THEN [tasks EXCEPT ![id].status = "completed"]
                ELSE tasks
    /\ ret' = [op |-> "complete_task", id |-> id, result |-> complete_task_where(id)]
    /\ UNCHANGED <<sessions, now, polled, turn>>

\* UPDATE ... SET status = 'failed' WHERE id = ?1
fail_task_where(id) == TRUE

fail_task_update_keeps_row(id) == tasks

fail_task_update(id) ==
    IF fail_task_where(id) THEN [tasks EXCEPT ![id].status = "failed"] ELSE tasks

fail_task(id) ==
    /\ tasks' = fail_task_update(id)
    /\ ret' = [op |-> "fail_task", id |-> id]
    /\ UNCHANGED <<sessions, now, polled, turn>>

backoff_secs_of_new_count(retry_count) ==
    BACKOFF_BASE_SECS * Pow2(Min(retry_count + 1, BACKOFF_MAX_SHIFT))

\* 30i64 * (1 << retry_count.min(7)), retry_count being the count read from the row
backoff_secs(retry_count) ==
    BACKOFF_BASE_SECS * Pow2(Min(retry_count, BACKOFF_MAX_SHIFT))

retry_allowed_below_max(new_count, max_retries) == ~(new_count >= max_retries)

\* if new_count > max_retries { fail } else { retry }
retry_allowed(new_count, max_retries) == ~(new_count > max_retries)

retry_or_fail_task(id) ==
    LET retry_count == tasks[id].retry_count
        new_count == retry_count + 1
        retried == retry_allowed(new_count, tasks[id].max_retries)
    IN /\ tasks' = IF retried
                   THEN [tasks EXCEPT ![id].retry_count = new_count,
                                      ![id].next_retry_at =
                                          now + Secs(backoff_secs(retry_count))]
                   ELSE fail_task_update(id)
       /\ ret' = [op |-> "retry_or_fail_task", id |-> id, result |-> retried]
       /\ UNCHANGED <<sessions, now, polled, turn>>

cancel_task_where_any_session(id, session_id) == tasks[id].status = "pending"

\* UPDATE ... SET status = 'cancelled'
\*   WHERE id = ?1 AND session_id = ?2 AND status = 'pending'
cancel_task_where(id, session_id) ==
    tasks[id].session_id = session_id /\ tasks[id].status = "pending"

cancel_task(id, session_id) ==
    /\ tasks' = IF cancel_task_where(id, session_id)
                THEN [tasks EXCEPT ![id].status = "cancelled"]
                ELSE tasks
    /\ ret' = [op |-> "cancel_task", id |-> id, session_id |-> session_id,
               result |-> cancel_task_where(id, session_id)]
    /\ UNCHANGED <<sessions, now, polled, turn>>

----------------------------------------------------------------------------
(* reschedule_recurring_task *)

RECURSIVE skip_forward_to_now(_, _)
skip_forward_to_now(candidate, interval) ==
    IF candidate < now THEN skip_forward_to_now(candidate + interval, interval)
    ELSE candidate

\* The interval branch: anchored to the previous execute_at, stepped past now.
RECURSIVE skip_forward(_, _)
skip_forward(candidate, interval) ==
    IF candidate <= now THEN skip_forward(candidate + interval, interval)
    ELSE candidate

\* The zones chrono_tz knows, with their offset from UTC in seconds.
TzOffsets == [z \in {"UTC", "Asia/Kolkata"} |->
                 IF z = "Asia/Kolkata" THEN 19800 ELSE 0]

task_tz_utc_only(timezone) == "UTC"

\* task.timezone.as_deref().unwrap_or("UTC").parse().unwrap_or_else(|_| Tz::UTC):
\* UTC when the column is NULL ("none") and when the name is not a zone.
task_tz(timezone) ==
    IF timezone \in DOMAIN TzOffsets THEN timezone ELSE "UTC"

\* The cron branch: schedule.upcoming(tz).next(), taken back to UTC.  A cron
\* expression is its period in seconds: it fires on the whole seconds of the
\* zone's local time that are multiples of it, and the first firing taken is
\* later than the present second.
cron_upcoming(period, tz) ==
    LET local_sec == (datetime(now) \div Secs(1)) + TzOffsets[tz]
        next_local == (local_sec \div period + 1) * period
    IN Secs(next_local - TzOffsets[tz])

reschedule_next_at_from_now(task) ==
    IF task.recurrence_type = "interval"
    THEN now + Secs(task.recurrence_value)
    ELSE cron_upcoming(task.recurrence_value, task_tz(task.timezone))

reschedule_next_at(task) ==
    IF task.recurrence_type = "interval"
    THEN skip_forward(task.execute_at + Secs(task.recurrence_value),
                      Secs(task.recurrence_value))
    ELSE cron_upcoming(task.recurrence_value, task_tz(task.timezone))

past_end_ignored(next_at, end_at) == FALSE

past_end(next_at, end_at) == end_at # NULL /\ next_at > end_at

\* cap bounds the table: no row is inserted beyond it.
reschedule_recurring_task(task, cap) ==
    IF task.recurrence_type \notin {"interval", "cron"}
       \/ past_end(reschedule_next_at(task), task.recurrence_end_at)
    THEN /\ ret' = [op |-> "reschedule_recurring_task", id |-> task.id,
                    result |-> NULL]
         /\ UNCHANGED tasks
    ELSE /\ Len(tasks) < cap
         /\ tasks' = schedule_task_full(task.session_id, reschedule_next_at(task),
                                        task.heartbeat_depth, task.recurrence_type,
                                        task.recurrence_value, task.recurrence_end_at,
                                        task.timezone)
         /\ ret' = [op |-> "reschedule_recurring_task", id |-> task.id,
                    result |-> Len(tasks) + 1]

\* The scheduler's step 4: the heartbeat of a polled task has succeeded and
\* complete_task was called for it; the scheduler reschedules the task from the
\* row it polled and is done with it.
Reschedule(k, cap) ==
    /\ tasks[polled[k].id].status = "completed"
    /\ reschedule_recurring_task(polled[k], cap)
    /\ polled' = [j \in 1..(Len(polled) - 1) |->
                     IF j < k THEN polled[j] ELSE polled[j + 1]]
    /\ UNCHANGED <<sessions, now, turn>>

\* The clock moves on to the next second of clock at which it is read.
Tick(clock) ==
    /\ \E s \in clock : Secs(s) > now
    /\ now' = CHOOSE t \in {Secs(s) : s \in clock} :
                 t > now /\ \A s \in clock : Secs(s) > now => t <= Secs(s)
    /\ ret' = [op |-> "tick"]
    /\ UNCHANGED <<sessions, tasks, polled, turn>>

\* The clock moves on to a later one of the instants at which it is read.
Elapse(instants) ==
    /\ \E t \in instants : t > now /\ now' = t
    /\ ret' = [op |-> "tick"]
    /\ UNCHANGED <<sessions, tasks, polled, turn>>

----------------------------------------------------------------------------
(* Agent Runtime: complete_with_fallback and the tool loop of               *)
(* process_message_impl                                                     *)

is_retryable_whatever_the_error(error) == TRUE

\* What a provider's error says: the status code extract_status_code finds in
\* its text (NULL when it finds none), and whether the text holds one of the
\* retryable fragments ("timed out", "connection reset", ...).
ProviderErrors ==
    {[status |-> 500, fragment |-> FALSE],
     [status |-> 429, fragment |-> FALSE],
     [status |-> 401, fragment |-> FALSE],
     [status |-> 401, fragment |-> TRUE],
     [status |-> NULL, fragment |-> TRUE],
     [status |-> NULL, fragment |-> FALSE]}

\* What one call of provider.complete gives.
ProviderOutcomes ==
    {[ok |-> TRUE, has_tool_use |-> b] : b \in BOOLEAN}
    \cup {[ok |-> FALSE, error |-> e] : e \in ProviderErrors}

is_retryable_provider_error(error) ==
    IF error.status # NULL
    THEN error.status \in {429, 500, 502, 503}
    ELSE error.fragment

fallback_gives_up_at_end_only(error, index, len) == index + 1 >= len

\* if !is_retryable_provider_error(&err) || index + 1 >= providers.len() { return Err(err) }
fallback_gives_up(error, index, len) ==
    ~is_retryable_provider_error(error) \/ index + 1 >= len

fallback_first_index_primary(start_index, len) == 0

\* let mut index = start_index.min(providers.len() - 1);
fallback_first_index(start_index, len) == Min(start_index, len - 1)

fallback_error_of_first_call(tried) == tried[1].outcome.error

\* Err(err) => { if .. { return Err(err); } .. }: the error returned is the one
\* of the call just made, the last of tried.
fallback_error(tried) == tried[Len(tried)].outcome.error

tool_loop_continues_inclusive(iteration) == iteration <= MAX_TOOL_ITERATIONS

\* for _iteration in 0..MAX_TOOL_ITERATIONS
tool_loop_continues(iteration) == iteration < MAX_TOOL_ITERATIONS

\* What the turn returns: Ok(final_text), the provider error that ended
\* complete_with_fallback, or Error::Agent("tool loop exceeded maximum of 10
\* iterations").
TurnOk == [kind |-> "ok"]
TurnProviderError(error) == [kind |-> "provider error", error |-> error]
TurnToolLoopExceeded == [kind |-> "tool loop exceeded"]

\* pc: "idle", "loop" (at the head of the for loop), "complete" (inside
\* complete_with_fallback, about to call providers[index]), "done".
\* tried: the provider calls of the current complete_with_fallback, in order.
\* fallback: how the current complete_with_fallback ended ("none" while it runs).
\* model_calls: complete_with_fallback calls of the turn; responses: those
\* that returned a response.
TurnIdle ==
    [pc |-> "idle", len |-> 0, iteration |-> 0, active_provider_idx |-> 0,
     start_index |-> 0, index |-> 0, tried |-> <<>>, fallback |-> "none",
     model_calls |-> 0, responses |-> 0, last_has_tool_use |-> FALSE,
     result |-> [kind |-> "none"]]

\* process_message_impl up to the loop: the provider chain is resolved,
\* active_provider_idx = 0.
StartTurn(len) ==
    /\ turn.pc = "idle"
    /\ turn' = [TurnIdle EXCEPT !.pc = "loop", !.len = len]
    /\ UNCHANGED <<storeVars, ret>>

\* The head of the for loop: another iteration calls complete_with_fallback
\* (index = start_index.min(len - 1)); past the last one the turn fails.
LoopHead ==
    /\ turn.pc = "loop"
    /\ turn' = IF tool_loop_continues(turn.iteration)
               THEN [turn EXCEPT !.pc = "complete",
                                 !.start_index = turn.active_provider_idx,
                                 !.index = fallback_first_index(
                                               turn.active_provider_idx, turn.len),
                                 !.tried = <<>>,
                                 !.fallback = "none",
                                 !.model_calls = @ + 1]
               ELSE [turn EXCEPT !.pc = "done",
                                 !.result = TurnToolLoopExceeded]
    /\ UNCHANGED <<storeVars, ret>>

\* providers[index].complete(request) returns outcome.  Ok ends
\* complete_with_fallback; the loop body then either returns the final text or
\* runs the tools and goes to the next iteration.  Err moves to the next
\* provider or ends complete_with_fallback, and with it the turn, in error.
ProviderReturns(outcome) ==
    /\ turn.pc = "complete"
    /\ LET called == [turn EXCEPT !.tried =
                         Append(@, [index |-> turn.index, outcome |-> outcome])]
       IN turn' =
            IF outcome.ok
            THEN LET got == [called EXCEPT !.fallback = "ok",
                                           !.active_provider_idx = turn.index,
                                           !.responses = @ + 1,
                                           !.last_has_tool_use = outcome.has_tool_use]
                 IN IF outcome.has_tool_use
                    THEN [got EXCEPT !.pc = "loop", !.iteration = @ + 1]
                    ELSE [got EXCEPT !.pc = "done", !.result = TurnOk]
            ELSE IF fallback_gives_up(outcome.error, turn.index, turn.len)
                 THEN [called EXCEPT !.pc = "done", !.fallback = "err",
                                     !.result =
                                         TurnProviderError(fallback_error(called.tried))]
                 ELSE [called EXCEPT !.index = @ + 1]
    /\ UNCHANGED <<storeVars, ret>>

\* The caller has the turn's result; the runtime is ready for the next turn.
EndTurn ==
    /\ turn.pc = "done"
    /\ turn' = TurnIdle
    /\ UNCHANGED <<storeVars, ret>>


----------------------------------------------------------------------------
(* Spec: the life of one-shot tasks of two sessions, the store's calls made *)
(* in any order.  Both sessions have their row in table sessions.           *)

Init ==
    /\ sessions = Sessions
    /\ tasks = <<>>
    /\ now = 0
    /\ polled = <<>>
    /\ ret = [op |-> "init"]
    /\ turn = TurnIdle

UpsertSession == \E s \in Sessions : upsert_session(s)

ScheduleHeartbeat ==
    \E s \in Sessions, delay \in {0, 30} :
        schedule_heartbeat(s, 0, delay, "none", 0, NULL, "none", MaxTasks)

CompleteTask == \E id \in DOMAIN tasks : complete_task(id)

FailTask == \E id \in DOMAIN tasks : fail_task(id)

RetryOrFailTask == \E id \in DOMAIN tasks : retry_or_fail_task(id)

CancelTask == \E id \in DOMAIN tasks, s \in Sessions : cancel_task(id, s)

RescheduleRecurringTask == \E k \in DOMAIN polled : Reschedule(k, MaxTasks)

ClockTick == Tick({0, 30})

Next ==
    \/ UpsertSession
    \/ ScheduleHeartbeat
    \/ PollDueTasks
    \/ CompleteTask
    \/ FailTask
    \/ RetryOrFailTask
    \/ CancelTask
    \/ RescheduleRecurringTask
    \/ ClockTick

Spec == Init /\ [][Next]_vars

----------------------------------------------------------------------------
(* SpecChain: heartbeats of one session, scheduled from every depth, with  *)
(* and without recurrence; the scheduler polls them, completes them and    *)
(* reschedules the recurring ones.                                         *)

ChainRecurrences == {<<"none", 0>>, <<"interval", 30>>, <<"cron", 60>>}

ChainInit ==
    /\ sessions = {"s1"}
    /\ tasks = <<>>
    /\ now = 0
    /\ polled = <<>>
    /\ ret = [op |-> "init"]
    /\ turn = TurnIdle

ChainSchedule ==
    \E d \in 0..MaxCtxDepth, r \in ChainRecurrences, e \in {NULL, 60} :
        schedule_heartbeat("s1", d, 30, r[1], r[2], e, "none", ChainTasks)

ChainComplete == \E k \in DOMAIN polled : complete_task(polled[k].id)

ChainReschedule == \E k \in DOMAIN polled : Reschedule(k, ChainTasks)

ChainTick == Tick({0, 30, 60})

ChainNext ==
    \/ ChainSchedule
    \/ PollDueTasks
    \/ ChainComplete
    \/ ChainReschedule
    \/ ChainTick

SpecChain == ChainInit /\ [][ChainNext]_vars

----------------------------------------------------------------------------
(* SpecQuota: session s1 starts one short of its quota of pending           *)
(* heartbeats, each scheduled at time 0 from a human message, 60 s ahead.   *)

QuotaPrefill == MAX_PENDING_PER_SESSION - 1

QuotaCap == QuotaPrefill + QuotaExtra

QuotaInit ==
    /\ sessions = Sessions
    /\ tasks = [i \in 1..QuotaPrefill |->
                   [session_id |-> "s1",
                    execute_at |-> Secs(60),
                    status |-> "pending",
                    retry_count |-> 0,
                    max_retries |-> DEFAULT_MAX_RETRIES,
                    next_retry_at |-> NULL,
                    heartbeat_depth |-> 1,
                    recurrence_type |-> "none",
                    recurrence_value |-> 0,
                    recurrence_end_at |-> NULL,
                    timezone |-> "none"]]
    /\ now = 0
    /\ polled = <<>>
    /\ ret = [op |-> "init"]
    /\ turn = TurnIdle

QuotaSchedule ==
    \E s \in Sessions, r \in {<<"none", 0>>, <<"interval", 30>>} :
        schedule_heartbeat(s, 0, 30, r[1], r[2], NULL, "none", QuotaCap)

QuotaComplete == \E k \in DOMAIN polled : complete_task(polled[k].id)

\* cancel_heartbeat, called by the owning session, on the rows from the last
\* prefilled one on.
QuotaCancel ==
    \E id \in DOMAIN tasks :
        id >= QuotaPrefill /\ cancel_task(id, tasks[id].session_id)

QuotaReschedule == \E k \in DOMAIN polled : Reschedule(k, QuotaCap)

QuotaTick == Tick({0, 30})

QuotaNext ==
    \/ QuotaSchedule
    \/ PollDueTasks
    \/ QuotaComplete
    \/ QuotaCancel
    \/ QuotaReschedule
    \/ QuotaTick

SpecQuota == QuotaInit /\ [][QuotaNext]_vars

----------------------------------------------------------------------------
(* Claims checked under SpecQuota and SpecChain *)

\* C1: in every reachable state each session has at most 20 pending tasks,
\* whatever schedule_heartbeat, reschedule_recurring_task, retry_or_fail_task,
\* complete_task and cancel_task calls led to it.
C1_SessionQuota ==
    \A s \in Sessions : count_pending_tasks_for_session(s) <= 20

\* C2: every task row stored has heartbeat_depth between 0 and 3, those
\* schedule_heartbeat inserts as well as the successors
\* reschedule_recurring_task inserts; so no pending task is deeper than 3.
C2_TaskDepthCap ==
    \A id \in DOMAIN tasks :
        tasks[id].heartbeat_depth >= 0 /\ tasks[id].heartbeat_depth <= 3

\* C2 witness: reschedule_recurring_task has inserted the successor of a task
\* of depth 3, scheduled by a tool running at depth 2.
C2_Witness ==
    /\ ret.op = "reschedule_recurring_task"
    /\ ret.result # NULL
    /\ tasks[ret.result].heartbeat_depth = 3
    /\ tasks[ret.result].status = "pending"

----------------------------------------------------------------------------
(* SpecTurn: turns of the Agent Runtime over provider chains of every      *)
(* length, each provider call ending in any outcome.                       *)

TurnInit ==
    /\ sessions = {}
    /\ tasks = <<>>
    /\ now = 0
    /\ polled = <<>>
    /\ ret = [op |-> "init"]
    /\ turn = TurnIdle

TurnStart == \E len \in 1..MaxProviders : StartTurn(len)

TurnProviderReturns == \E o \in ProviderOutcomes : ProviderReturns(o)

TurnNext ==
    \/ TurnStart
    \/ LoopHead
    \/ TurnProviderReturns
    \/ EndTurn

SpecTurn == TurnInit /\ [][TurnNext]_vars

----------------------------------------------------------------------------
(* Claims checked under SpecTurn *)

\* C6: complete_with_fallback returns Ok iff one of the providers it called
\* succeeded, and it moves on to the next provider of the chain only after an
\* error classified retryable.
C6_FallbackCorrect ==
    /\ turn.fallback # "none" =>
          (turn.fallback = "ok" <=>
              \E k \in DOMAIN turn.tried : turn.tried[k].outcome.ok)
    /\ \A k \in DOMAIN turn.tried :
          k < Len(turn.tried) =>
              /\ ~turn.tried[k].outcome.ok
              /\ is_retryable_provider_error(turn.tried[k].outcome.error)
              /\ turn.tried[k + 1].index = turn.tried[k].index + 1

\* C6 witness: complete_with_fallback has returned Ok from the third provider
\* after two retryable failures.
C6_Witness ==
    /\ turn.fallback = "ok"
    /\ Len(turn.tried) = 3
    /\ turn.tried[3].outcome.ok

\* C7: a turn makes at most 10 model calls; the turn ends with the "tool loop
\* exceeded" error exactly when its 10th response still holds a ToolUse
\* block, and no 11th model call is made.
C7_ToolLoopBounded ==
    /\ turn.model_calls <= 10
    /\ (turn.pc = "done" /\ turn.responses = 10 /\ turn.last_has_tool_use)
          => turn.result.kind = "tool loop exceeded"
    /\ (turn.pc = "done" /\ turn.result.kind = "tool loop exceeded")
          => (turn.responses = 10 /\ turn.last_has_tool_use /\ turn.model_calls = 10)

\* C7 witness: a turn has ended with the "tool loop exceeded" error.
C7_Witness ==
    /\ turn.pc = "done"
    /\ turn.result.kind = "tool loop exceeded"

----------------------------------------------------------------------------
(* Claims checked under Spec *)

\* C3: a task that is completed, failed or cancelled keeps that status under
\* every later complete_task, fail_task, retry_or_fail_task and cancel_task
\* call: every status change starts from pending.
C3_TerminalStatusKept ==
    [][\A id \in DOMAIN tasks :
          tasks[id].status \in Terminal => tasks'[id].status = tasks[id].status]_vars

\* C4: every task poll_due_tasks returns is pending at the time of the poll,
\* and a task that has left pending never becomes pending again, so no later
\* poll returns it.
C4_PollReturnsOnlyPending ==
    /\ [](ret.op = "poll_due_tasks" =>
            \A k \in DOMAIN polled : tasks[polled[k].id].status = "pending")
    /\ [][\A id \in DOMAIN tasks :
             tasks[id].status \in Terminal => tasks'[id].status \in Terminal]_vars

\* C4 witness: a poll has returned a task while another task, due as well,
\* was left out because it is no longer pending.
C4_Witness ==
    /\ ret.op = "poll_due_tasks"
    /\ polled # <<>>
    /\ \E id \in DOMAIN tasks :
          /\ tasks[id].status \in Terminal
          /\ datetime(due_at(tasks[id])) <= datetime(now)

\* C5: cancel_task(id, s) with s other than the owning session returns false
\* and changes no row; a pending task becomes cancelled only by a cancel_task
\* call made with its own session.
C5_CancelScopedToSession ==
    [][\A id \in DOMAIN tasks :
          /\ (ret'.op = "cancel_task" /\ ret'.id = id
                  /\ ret'.session_id # tasks[id].session_id)
             => (~ret'.result /\ tasks' = tasks)
          /\ (tasks[id].status = "pending" /\ tasks'[id].status = "cancelled")
             => (ret'.op = "cancel_task" /\ ret'.id = id /\ ret'.result
                  /\ ret'.session_id = tasks[id].session_id)]_vars

\* C5 witness: another session has just tried to cancel a pending task.
C5_Witness ==
    /\ ret.op = "cancel_task"
    /\ ret.session_id # tasks[ret.id].session_id
    /\ tasks[ret.id].status = "pending"

\* C8: complete_task(id) returns true and makes the task completed exactly
\* when the task is pending at the call; otherwise it returns false and
\* changes nothing.
C8_CompleteTaskOnlyFromPending ==
    [][ret'.op = "complete_task" =>
          IF tasks[ret'.id].status = "pending"
          THEN ret'.result /\ tasks' = [tasks EXCEPT ![ret'.id].status = "completed"]
          ELSE ~ret'.result /\ tasks' = tasks]_vars

\* C8 witness: complete_task has returned false for a task cancelled before.
C8_Witness ==
    /\ ret.op = "complete_task"
    /\ ~ret.result
    /\ tasks[ret.id].status = "cancelled"

\* C9: retry_or_fail_task(id) returns true, storing the incremented
\* retry_count, iff the incremented count does not exceed max_retries;
\* otherwise it returns false and the task is failed.  With max_retries = 3
\* the calls on one task return true, true, true, false: the call returns true
\* exactly when fewer than three retries were granted before.
C9_RetryThenFail ==
    [][ret'.op = "retry_or_fail_task" =>
          LET id == ret'.id
              new_count == tasks[id].retry_count + 1
          IN /\ ret'.result <=> new_count <= tasks[id].max_retries
             /\ ret'.result => /\ tasks'[id].retry_count = new_count
                               /\ tasks'[id].status = tasks[id].status
             /\ ~ret'.result => /\ tasks'[id].status = "failed"
                                /\ tasks'[id].retry_count = tasks[id].retry_count
             /\ tasks[id].max_retries = 3 =>
                    (ret'.result <=> tasks[id].retry_count < 3)]_vars

\* C9 witness: the fourth call on a pending task has returned false and the
\* task is failed.
C9_Witness ==
    /\ ret.op = "retry_or_fail_task"
    /\ ~ret.result
    /\ tasks[ret.id].retry_count = 3
    /\ tasks[ret.id].status = "failed"

\* C10 as claimed: after a retry is scheduled, next_retry_at = now + 30 s *
\* 2^min(retry_count, 7), retry_count being the count the call stored.
C10_BackoffOfStoredCount ==
    (ret.op = "retry_or_fail_task" /\ ret.result) =>
        tasks[ret.id].next_retry_at =
            now + Secs(30 * Pow2(Min(tasks[ret.id].retry_count, 7)))

\* C10 as amended: after a retry is scheduled, next_retry_at = now + 30 s *
\* 2^min(retry_count - 1, 7), retry_count being the count the call stored
\* (the exponent is the count before the call: 30 s, 60 s, 120 s).
C10_BackoffOfPreviousCount ==
    (ret.op = "retry_or_fail_task" /\ ret.result) =>
        tasks[ret.id].next_retry_at =
            now + Secs(30 * Pow2(Min(tasks[ret.id].retry_count - 1, 7)))

\* C10 witness: the second retry of a task has been scheduled, 60 s ahead.
C10_Witness ==
    /\ ret.op = "retry_or_fail_task"
    /\ ret.result
    /\ tasks[ret.id].retry_count = 2
    /\ tasks[ret.id].next_retry_at = now + Secs(60)

----------------------------------------------------------------------------
(* SpecDue: heartbeats of one session on a clock read between the whole    *)
(* seconds: the scheduler polls them, retries them after a failed heartbeat *)
(* and completes them after a successful one.                               *)

DueTasks == 2          \* rows of scheduled_tasks in SpecDue

\* The instants, in ticks, at which the clock is read: each half minute and
\* one tick past it.
DueInstants == {Secs(m) + d : m \in {0, 30, 60}, d \in {0, 1}}

DueInit ==
    /\ sessions = {"s1"}
    /\ tasks = <<>>
    /\ now = 0
    /\ polled = <<>>
    /\ ret = [op |-> "init"]
    /\ turn = TurnIdle

DueSchedule == schedule_heartbeat("s1", 0, 30, "none", 0, NULL, "none", DueTasks)

DueRetry == \E k \in DOMAIN polled : retry_or_fail_task(polled[k].id)

DueComplete == \E k \in DOMAIN polled : complete_task(polled[k].id)

DueTick == Elapse(DueInstants)

DueNext ==
    \/ DueSchedule
    \/ PollDueTasks
    \/ DueRetry
    \/ DueComplete
    \/ DueTick

SpecDue == DueInit /\ [][DueNext]_vars

----------------------------------------------------------------------------
(* Claims checked under SpecDue *)

\* C11 as claimed: a task is in the batch of a poll only when
\* COALESCE(next_retry_at, execute_at) <= now; in particular a task with a
\* retry scheduled is not returned before next_retry_at has passed.
C11_PolledOnlyWhenDue ==
    ret.op = "poll_due_tasks" =>
        \A k \in DOMAIN polled : due_at(tasks[polled[k].id]) <= now

\* C11 as amended: a task is in the batch of a poll only when
\* COALESCE(next_retry_at, execute_at), its fraction of a second dropped, is
\* <= now; a task with a retry scheduled is not returned before the whole
\* second of next_retry_at, however long execute_at has passed.
C11_PolledOnlyWhenDueSecond ==
    ret.op = "poll_due_tasks" =>
        \A k \in DOMAIN polled :
            LET t == tasks[polled[k].id]
            IN /\ due_at(t) - (due_at(t) % TicksPerSec) <= now
               /\ t.next_retry_at # NULL =>
                      t.next_retry_at - (t.next_retry_at % TicksPerSec) <= now

\* C11 witness: a poll has left out a pending task whose execute_at has
\* passed and whose retry is still ahead.
C11_Witness ==
    /\ ret.op = "poll_due_tasks"
    /\ \E id \in DOMAIN tasks :
          /\ tasks[id].status = "pending"
          /\ tasks[id].next_retry_at # NULL
          /\ tasks[id].execute_at <= now
          /\ tasks[id].next_retry_at > now + Secs(1)
          /\ \A k \in DOMAIN polled : polled[k].id # id

----------------------------------------------------------------------------
(* SpecBatch: more due tasks than one poll returns.  Session s1 starts with *)
(* a full batch of heartbeats that were scheduled at 0 s for 1 s, polled at *)
(* 30 s and, their heartbeat having failed, given their first retry.        *)

BatchExtra == 2        \* rows beyond the prefilled ones in SpecBatch

BatchPrefill == POLL_LIMIT

BatchCap == BatchPrefill + BatchExtra

BatchInstants == {Secs(m) : m \in {30, 31, 60, 61}}

BatchInit ==
    /\ sessions = {"s1"}
    /\ tasks = [i \in 1..BatchPrefill |->
                   [session_id |-> "s1",
                    execute_at |-> Secs(1),
                    status |-> "pending",
                    retry_count |-> 1,
                    max_retries |-> DEFAULT_MAX_RETRIES,
                    next_retry_at |-> Secs(30) + Secs(backoff_secs(0)),
                    heartbeat_depth |-> 1,
                    recurrence_type |-> "none",
                    recurrence_value |-> 0,
                    recurrence_end_at |-> NULL,
                    timezone |-> "none"]]
    /\ now = Secs(30)
    /\ polled = <<>>
    /\ ret = [op |-> "init"]
    /\ turn = TurnIdle

BatchSchedule ==
    \E delay \in {1, 30} :
        schedule_heartbeat("s1", 0, delay, "none", 0, NULL, "none", BatchCap)

\* The scheduler's steps 4 and 5, on the rows from the last prefilled one on.
BatchComplete ==
    \E k \in DOMAIN polled :
        polled[k].id >= BatchPrefill /\ complete_task(polled[k].id)

BatchRetry ==
    \E k \in DOMAIN polled :
        polled[k].id >= BatchPrefill /\ retry_or_fail_task(polled[k].id)

BatchTick == Elapse(BatchInstants)

BatchNext ==
    \/ BatchSchedule
    \/ PollDueTasks
    \/ BatchComplete
    \/ BatchRetry
    \/ BatchTick

SpecBatch == BatchInit /\ [][BatchNext]_vars

----------------------------------------------------------------------------
(* Claims checked under SpecBatch *)

\* C12 as claimed: a poll returns at most 10 tasks, in ascending execute_at
\* order, and no due pending task left out of the batch is due (by
\* COALESCE(next_retry_at, execute_at)) earlier than a task of the batch.
C12_BatchEarliestDue ==
    ret.op = "poll_due_tasks" =>
        /\ Len(polled) <= 10
        /\ \A k \in 1..(Len(polled) - 1) :
               polled[k].execute_at <= polled[k + 1].execute_at
        /\ \A id \in DOMAIN tasks :
               (/\ tasks[id].status = "pending"
                /\ due_at(tasks[id]) <= now
                /\ \A k \in DOMAIN polled : polled[k].id # id)
               => \A k \in DOMAIN polled :
                      ~(due_at(tasks[id]) < due_at(tasks[polled[k].id]))

\* C12 as amended: a poll returns at most 10 tasks, in ascending execute_at
\* order, and no due pending task of a stored session left out of the batch
\* has an execute_at earlier than a task of the batch.
C12_BatchEarliestExecuteAt ==
    ret.op = "poll_due_tasks" =>
        /\ Len(polled) <= 10
        /\ \A k \in 1..(Len(polled) - 1) :
               polled[k].execute_at <= polled[k + 1].execute_at
        /\ \A id \in DOMAIN tasks :
               (/\ tasks[id].status = "pending"
                /\ tasks[id].session_id \in sessions
                /\ due_at(tasks[id]) <= now
                /\ \A k \in DOMAIN polled : polled[k].id # id)
               => \A k \in DOMAIN polled :
                      ~(tasks[id].execute_at < polled[k].execute_at)

\* C12 witness: a poll has returned 10 tasks, not all of the same execute_at,
\* and left a due pending task out.
C12_Witness ==
    /\ ret.op = "poll_due_tasks"
    /\ Len(polled) = 10
    /\ polled[1].execute_at < polled[10].execute_at
    /\ \E id \in DOMAIN tasks :
          /\ tasks[id].status = "pending"
          /\ due_at(tasks[id]) <= now
          /\ \A k \in DOMAIN polled : polled[k].id # id

----------------------------------------------------------------------------
(* Claims on reschedule_recurring_task checked under SpecChain *)

\* C13: the successor reschedule_recurring_task creates for an interval task
\* has execute_at = prev.execute_at + k * interval, k being the smallest
\* positive integer for which that time is strictly later than now.
C13_IntervalSkipsPastNow ==
    (/\ ret.op = "reschedule_recurring_task"
     /\ ret.result # NULL
     /\ tasks[ret.id].recurrence_type = "interval")
    => LET prev == tasks[ret.id].execute_at
           interval == Secs(tasks[ret.id].recurrence_value)
           next == tasks[ret.result].execute_at
       IN \E k \in 1..4 :
             /\ next = prev + k * interval
             /\ next > now
             /\ \A j \in 1..(k - 1) : prev + j * interval <= now

\* C13 witness: an interval task was rescheduled when one interval had
\* already gone by since its execute_at, so that the successor is two
\* intervals after it.
C13_Witness ==
    /\ ret.op = "reschedule_recurring_task"
    /\ ret.result # NULL
    /\ tasks[ret.id].recurrence_type = "interval"
    /\ now = tasks[ret.id].execute_at + Secs(tasks[ret.id].recurrence_value)
    /\ tasks[ret.result].execute_at =
          tasks[ret.id].execute_at + 2 * Secs(tasks[ret.id].recurrence_value)

----------------------------------------------------------------------------
(* SpecRecur: recurring heartbeats of one session, every 300 s or by an     *)
(* hourly cron expression, with and without a timezone; the scheduler polls *)
(* them, completes them and reschedules them, on time or late, and the      *)
(* session may cancel them.                                                 *)

RecurTasks == 2        \* rows of scheduled_tasks in SpecRecur

RecurRecurrences == {<<"interval", 300>>, <<"cron", 3600>>}

\* args["timezone"]: absent, two zones, and a name that is no zone.
RecurTimezones == {"none", "UTC", "Asia/Kolkata", "Mars/Olympus"}

RecurInstants ==
    {Secs(0), Secs(60), Secs(360), Secs(1800), Secs(1800) + 1, Secs(3600)}

RecurInit ==
    /\ sessions = {"s1"}
    /\ tasks = <<>>
    /\ now = 0
    /\ polled = <<>>
    /\ ret = [op |-> "init"]
    /\ turn = TurnIdle

RecurSchedule ==
    \E r \in RecurRecurrences, z \in RecurTimezones :
        schedule_heartbeat("s1", 0, 60, r[1], r[2], NULL, z, RecurTasks)

RecurComplete == \E k \in DOMAIN polled : complete_task(polled[k].id)

RecurCancel == \E id \in DOMAIN tasks : cancel_task(id, tasks[id].session_id)

RecurReschedule == \E k \in DOMAIN polled : Reschedule(k, RecurTasks)

RecurTick == Elapse(RecurInstants)

RecurNext ==
    \/ RecurSchedule
    \/ PollDueTasks
    \/ RecurComplete
    \/ RecurCancel
    \/ RecurReschedule
    \/ RecurTick

SpecRecur == RecurInit /\ [][RecurNext]_vars

----------------------------------------------------------------------------
(* Claims checked under SpecRecur *)

\* C14 as claimed: when an interval task of 300 s has fired and its heartbeat
\* has succeeded, complete_task returns true and reschedule_recurring_task
\* leaves in the session's pending list a new task at exactly the fired
\* task's execute_at + 300 s.
C14_SuccessorAfter300 ==
    /\ [][(/\ ret'.op = "complete_task"
           /\ tasks[ret'.id].recurrence_type = "interval"
           /\ \E k \in DOMAIN polled : polled[k].id = ret'.id)
          => ret'.result]_vars
    /\ []((/\ ret.op = "reschedule_recurring_task"
           /\ tasks[ret.id].recurrence_type = "interval"
           /\ tasks[ret.id].recurrence_value = 300)
          => /\ ret.result # NULL
             /\ tasks[ret.result].status = "pending"
             /\ tasks[ret.result].session_id = tasks[ret.id].session_id
             /\ tasks[ret.result].execute_at =
                    tasks[ret.id].execute_at + Secs(300))

\* C14 as amended: complete_task returns true iff the fired task is still
\* pending (not cancelled while its heartbeat ran); reschedule_recurring_task
\* then leaves in the session's pending list a new task at the fired task's
\* execute_at + k * 300 s, k >= 1 the smallest that makes it later than the
\* time of the rescheduling: exactly execute_at + 300 s when the rescheduling
\* is made less than 300 s after the fired task's execute_at.
C14_SuccessorAfterMultipleOf300 ==
    /\ [][(/\ ret'.op = "complete_task"
           /\ tasks[ret'.id].recurrence_type = "interval"
           /\ \E k \in DOMAIN polled : polled[k].id = ret'.id)
          => (ret'.result <=> tasks[ret'.id].status = "pending")]_vars
    /\ []((/\ ret.op = "reschedule_recurring_task"
           /\ tasks[ret.id].recurrence_type = "interval"
           /\ tasks[ret.id].recurrence_value = 300
           /\ tasks[ret.id].recurrence_end_at = NULL)
          => /\ ret.result # NULL
             /\ tasks[ret.result].status = "pending"
             /\ tasks[ret.result].session_id = tasks[ret.id].session_id
             /\ \E k \in 1..12 :
                   /\ tasks[ret.result].execute_at =
                          tasks[ret.id].execute_at + k * Secs(300)
                   /\ tasks[ret.id].execute_at + k * Secs(300) > now
                   /\ tasks[ret.id].execute_at + (k - 1) * Secs(300) <= now
                          \/ k = 1)

\* C14 witness: the task scheduled 60 s ahead with interval 300 s has fired,
\* was completed, and its successor is pending at execute_at + 300 s.
C14_Witness ==
    /\ ret.op = "reschedule_recurring_task"
    /\ ret.result # NULL
    /\ tasks[ret.id].recurrence_value = 300
    /\ tasks[ret.id].status = "completed"
    /\ tasks[ret.id].execute_at = Secs(60)
    /\ tasks[ret.result].status = "pending"
    /\ tasks[ret.result].execute_at = Secs(360)

\* C15 as claimed: the successor of a cron task is at the first firing of the
\* cron expression at or after now, the expression being read in the task's
\* timezone (UTC when none is set) and the time stored in UTC.
C15_CronFirstFiringFromNow ==
    (/\ ret.op = "reschedule_recurring_task"
     /\ ret.result # NULL
     /\ tasks[ret.id].recurrence_type = "cron")
    => LET period == tasks[ret.id].recurrence_value
           zone == tasks[ret.id].timezone
           offset == IF zone = "Asia/Kolkata" THEN 19800 ELSE 0
           fires(t) == /\ t % TicksPerSec = 0
                       /\ ((t \div TicksPerSec) + offset) % period = 0
           next == tasks[ret.result].execute_at
       IN /\ fires(next)
          /\ next >= now
          /\ \A t \in now..(next - 1) : ~fires(t)

\* C15 as amended: the successor of a cron task is at the first firing of the
\* cron expression strictly after now, the expression being read in the
\* task's timezone (UTC when none is set or when the stored name is not a
\* zone) and the time stored in UTC.
C15_CronFirstFiringAfterNow ==
    (/\ ret.op = "reschedule_recurring_task"
     /\ ret.result # NULL
     /\ tasks[ret.id].recurrence_type = "cron")
    => LET period == tasks[ret.id].recurrence_value
           zone == tasks[ret.id].timezone
           offset == IF zone = "Asia/Kolkata" THEN 19800 ELSE 0
           fires(t) == /\ t % TicksPerSec = 0
                       /\ ((t \div TicksPerSec) + offset) % period = 0
           next == tasks[ret.result].execute_at
       IN /\ fires(next)
          /\ next > now
          /\ \A t \in (now + 1)..(next - 1) : ~fires(t)

\* C15 witness: an hourly cron task of zone Asia/Kolkata (UTC+05:30) was
\* rescheduled before the half hour and its successor is at the half hour
\* of UTC.
C15_Witness ==
    /\ ret.op = "reschedule_recurring_task"
    /\ ret.result # NULL
    /\ tasks[ret.id].recurrence_type = "cron"
    /\ tasks[ret.id].timezone = "Asia/Kolkata"
    /\ now < Secs(1800)
    /\ tasks[ret.result].execute_at = Secs(1800)

----------------------------------------------------------------------------
(* Further claims checked under SpecChain *)

\* C16: reschedule_recurring_task inserts one new pending task and returns
\* its id only if the task has a recurrence and the next time computed is not
\* later than recurrence_end_at; for a task without recurrence, and when the
\* next time is later than recurrence_end_at, it inserts nothing and returns
\* None.
C16_RescheduleOnlyWithinEnd ==
    [][ret'.op = "reschedule_recurring_task" =>
          LET task == tasks[ret'.id]
              recurring == task.recurrence_type \in {"interval", "cron"}
          IN /\ ret'.result # NULL =>
                   /\ recurring
                   /\ tasks' = Append(tasks, tasks'[Len(tasks')])
                   /\ ret'.result = Len(tasks')
                   /\ tasks'[ret'.result].status = "pending"
                   /\ task.recurrence_end_at # NULL =>
                          tasks'[ret'.result].execute_at <= task.recurrence_end_at
             /\ ret'.result = NULL => tasks' = tasks
             /\ ~recurring => ret'.result = NULL
             /\ (/\ recurring
                 /\ task.recurrence_end_at # NULL
                 /\ reschedule_next_at(ScheduledTask(ret'.id)) > task.recurrence_end_at)
                => ret'.result = NULL]_vars

\* C16 witness: a recurring task was rescheduled when its next time had moved
\* past recurrence_end_at: nothing was inserted and None returned, although
\* the task is recurring.
C16_Witness ==
    /\ ret.op = "reschedule_recurring_task"
    /\ ret.result = NULL
    /\ tasks[ret.id].recurrence_type \in {"interval", "cron"}
    /\ tasks[ret.id].recurrence_end_at # NULL
    /\ \A id \in DOMAIN tasks : tasks[id].status # "pending"

\* C17: schedule_heartbeat called with ToolContext.heartbeat_depth >= 3 gives
\* an error whose message contains "depth limit", and inserts no task row.
C17_DepthLimitError ==
    [][(ret'.op = "schedule_heartbeat" /\ ret'.depth >= 3) =>
          /\ ret'.is_error
          /\ \E k \in 1..(Len(ret'.error) - 1) :
                SubSeq(ret'.error, k, k + 1) = <<"depth", "limit">>
          /\ tasks' = tasks]_vars

\* C17 witness: schedule_heartbeat has failed for a tool running at depth 3,
\* the depth of a heartbeat that a depth-2 tool scheduled and that is stored.
C17_Witness ==
    /\ ret.op = "schedule_heartbeat"
    /\ ret.depth = 3
    /\ ret.is_error
    /\ \E id \in DOMAIN tasks : tasks[id].heartbeat_depth = 3

\* C18: the task schedule_heartbeat creates for a tool running at depth D,
\* D < 3, is stored with heartbeat_depth = D + 1.
C18_StoredDepthIsNext ==
    (ret.op = "schedule_heartbeat" /\ ~ret.is_error) =>
        /\ ret.depth < 3
        /\ ret.id = Len(tasks)
        /\ tasks[ret.id].heartbeat_depth = ret.depth + 1

\* C18 witness: a tool running at depth 2 has scheduled a heartbeat.
C18_Witness ==
    /\ ret.op = "schedule_heartbeat"
    /\ ~ret.is_error
    /\ ret.depth = 2
    /\ tasks[ret.id].status = "pending"

----------------------------------------------------------------------------
(* Further claims checked under SpecQuota *)

\* C19: schedule_heartbeat called while the calling session has 20 pending
\* tasks (or more) fails and inserts no row; and it fails only then, whatever
\* the number of pending tasks of the other sessions.
C19_QuotaErrorPerSession ==
    [][ret'.op = "schedule_heartbeat" =>
          LET own == Cardinality({i \in DOMAIN tasks :
                         /\ tasks[i].session_id = ret'.session_id
                         /\ tasks[i].status = "pending"})
          IN /\ own >= 20 => (ret'.is_error /\ tasks' = tasks)
             /\ own < 20 => (~ret'.is_error /\ Len(tasks') = Len(tasks) + 1)]_vars

\* C19 witness: schedule_heartbeat has failed for session s1, which has 20
\* pending tasks, after it had succeeded for session s2 while s1 had these 20
\* pending tasks already.
C19_Witness ==
    /\ ret.op = "schedule_heartbeat"
    /\ ret.session_id = "s1"
    /\ ret.is_error
    /\ Cardinality({i \in DOMAIN tasks :
           tasks[i].session_id = "s1" /\ tasks[i].status = "pending"}) = 20
    /\ \E j \in DOMAIN tasks :
          /\ tasks[j].session_id = "s2"
          /\ \A i \in DOMAIN tasks : tasks[i].session_id = "s1" => i < j

----------------------------------------------------------------------------
(* Further claims checked under SpecTurn *)

\* C20: when a provider fails with an error that is not retryable (a status
\* code other than 429, 500, 502, 503, such as 401; or no status code and no
\* retryable fragment), no later provider of the chain is called and that
\* error is what the turn returns.
C20_NonRetryableFailsFast ==
    \A k \in DOMAIN turn.tried :
        LET outcome == turn.tried[k].outcome
            non_retryable ==
                IF outcome.error.status # NULL
                THEN outcome.error.status \notin {429, 500, 502, 503}
                ELSE ~outcome.error.fragment
        IN (~outcome.ok /\ non_retryable) =>
              /\ k = Len(turn.tried)
              /\ turn.fallback = "err"
              /\ turn.pc = "done"
              /\ turn.result = TurnProviderError(outcome.error)

\* C20 witness: the first provider of a chain of three has failed with
\* status 401 and the turn has ended with that error.
C20_Witness ==
    /\ turn.len = 3
    /\ turn.pc = "done"
    /\ Len(turn.tried) = 1
    /\ turn.tried[1].index = 0
    /\ ~turn.tried[1].outcome.ok
    /\ turn.tried[1].outcome.error.status = 401
    /\ turn.result.kind = "provider error"

\* C21: when complete_with_fallback fails, every provider it tried having
\* failed, the error returned is the error of the last provider tried, not
\* that of an earlier one.
C21_LastErrorReturned ==
    turn.fallback = "err" =>
        /\ \A k \in DOMAIN turn.tried : ~turn.tried[k].outcome.ok
        /\ turn.result.kind = "provider error"
        /\ turn.result.error = turn.tried[Len(turn.tried)].outcome.error

\* C21 witness: all three providers of a chain have failed, the first with
\* status 500 and the last with status 429, and the turn has returned the
\* latter.
C21_Witness ==
    /\ turn.fallback = "err"
    /\ Len(turn.tried) = 3
    /\ turn.tried[1].outcome.error.status = 500
    /\ turn.tried[3].outcome.error.status = 429
    /\ turn.result.error.status = 429

----------------------------------------------------------------------------
(* The retryable classifier on the text of an error.  A text is a sequence *)
(* of pieces: a marker, a blank, a run of digits, a fragment or another     *)
(* word, in upper or lower case.                                            *)

MaxPieces == 4         \* longest error text, in pieces

TextPieces ==
    {"status=", "STATUS:", "status code", " ", "429", "401", "50", "3",
     "Timed Out", "body"}

to_ascii_lowercase_unchanged(piece) == piece

\* message.to_ascii_lowercase(), piece by piece
to_ascii_lowercase(piece) ==
    CASE piece = "STATUS:" -> "status:"
      [] piece = "Timed Out" -> "timed out"
      [] OTHER -> piece

\* The ASCII digits of a piece; <<>> for a piece that does not start with one.
digits_of(piece) ==
    CASE piece = "429" -> <<4, 2, 9>>
      [] piece = "401" -> <<4, 0, 1>>
      [] piece = "50" -> <<5, 0>>
      [] piece = "3" -> <<3>>
      [] OTHER -> <<>>

\* remainder.trim_start(): the position of the first piece from i on that is
\* not a blank.
RECURSIVE trim_start(_, _)
trim_start(message, i) ==
    IF i <= Len(message) /\ message[i] = " " THEN trim_start(message, i + 1)
    ELSE i

\* remainder.chars().take_while(|ch| ch.is_ascii_digit())
RECURSIVE take_while_digit(_, _)
take_while_digit(message, i) ==
    IF i > Len(message) \/ digits_of(message[i]) = <<>> THEN <<>>
    ELSE digits_of(message[i]) \o take_while_digit(message, i + 1)

\* if digits.len() >= 3 && let Ok(status) = digits[..3].parse::<u16>()
status_after(message, marker_at) ==
    LET digits == take_while_digit(message, trim_start(message, marker_at + 1))
    IN IF Len(digits) >= 3
       THEN 100 * digits[1] + 10 * digits[2] + digits[3]
       ELSE NULL

StatusMarkers == <<"status=", "status:", "status code">>

\* The while loop over the occurrences of one marker, from position from on.
RECURSIVE status_by_marker(_, _, _)
status_by_marker(message, marker, from) ==
    IF from > Len(message) THEN NULL
    ELSE IF message[from] = marker /\ status_after(message, from) # NULL
         THEN status_after(message, from)
    ELSE status_by_marker(message, marker, from + 1)

\* The for loop over the markers, from marker number m on.
RECURSIVE status_by_markers(_, _)
status_by_markers(message, m) ==
    IF m > Len(StatusMarkers) THEN NULL
    ELSE IF status_by_marker(message, StatusMarkers[m], 1) # NULL
         THEN status_by_marker(message, StatusMarkers[m], 1)
    ELSE status_by_markers(message, m + 1)

extract_status_code(message) == status_by_markers(message, 1)

RetryableFragments ==
    {"timed out", "timeout", "connection refused", "connection reset",
     "connection aborted", "temporarily unavailable", "dns error",
     "network error"}

\* retryable_fragments.iter().any(|fragment| message.contains(fragment))
contains_retryable_fragment(message) ==
    \E i \in DOMAIN message : message[i] \in RetryableFragments

\* What is_retryable_provider_error reads of an error whose text is text.
error_of_text(text) ==
    LET message == [i \in DOMAIN text |-> to_ascii_lowercase(text[i])]
    IN [status |-> extract_status_code(message),
        fragment |-> contains_retryable_fragment(message)]

\* SpecClassify: is_retryable_provider_error applied to every text of up to
\* MaxPieces pieces.
ErrorTexts == UNION {[1..n -> TextPieces] : n \in 1..MaxPieces}

ClassifyInit ==
    /\ sessions = {}
    /\ tasks = <<>>
    /\ now = 0
    /\ polled = <<>>
    /\ ret \in {[op |-> "error", text |-> t] : t \in ErrorTexts}
    /\ turn = TurnIdle

Classify ==
    /\ ret.op = "error"
    /\ ret' = [op |-> "is_retryable_provider_error", text |-> ret.text,
               result |-> is_retryable_provider_error(error_of_text(ret.text))]
    /\ UNCHANGED <<storeVars, turn>>

ClassifyNext == Classify

SpecClassify == ClassifyInit /\ [][ClassifyNext]_vars

----------------------------------------------------------------------------
(* Claims checked under SpecClassify *)

\* C22 as claimed: an error is classified retryable iff its text contains a
\* status code of 429, 500, 502, 503, or contains, once in lower case, one of
\* the retryable fragments.
C22_RetryableIffCodeOrFragment ==
    ret.op = "is_retryable_provider_error" =>
        LET lower(piece) == IF piece = "STATUS:" THEN "status:"
                            ELSE IF piece = "Timed Out" THEN "timed out"
                            ELSE piece
            message == [i \in DOMAIN ret.text |-> lower(ret.text[i])]
            has_code == \E i \in DOMAIN message :
                           /\ message[i] \in {"status=", "status:", "status code"}
                           /\ status_after(message, i) \in {429, 500, 502, 503}
            has_fragment == \E i \in DOMAIN message :
                               message[i] \in {"timed out", "timeout",
                                   "connection refused", "connection reset",
                                   "connection aborted", "temporarily unavailable",
                                   "dns error", "network error"}
        IN ret.result <=> (has_code \/ has_fragment)

\* C22 as amended: when the text, once in lower case, holds a status code (at
\* least three digits after status=, else after status:, else after
\* "status code", the first such place of the first such marker, its first
\* three digits), the error is retryable iff that code is 429, 500, 502 or
\* 503, whatever else the text holds; when it holds none, the error is
\* retryable iff the text contains one of the retryable fragments.
C22_RetryableByCodeElseFragment ==
    ret.op = "is_retryable_provider_error" =>
        LET lower(piece) == IF piece = "STATUS:" THEN "status:"
                            ELSE IF piece = "Timed Out" THEN "timed out"
                            ELSE piece
            message == [i \in DOMAIN ret.text |-> lower(ret.text[i])]
            places(marker) == {i \in DOMAIN message :
                                  /\ message[i] = marker
                                  /\ status_after(message, i) # NULL}
            first(marker) == CHOOSE i \in places(marker) :
                                \A j \in places(marker) : i <= j
            marker == IF places("status=") # {} THEN "status="
                      ELSE IF places("status:") # {} THEN "status:"
                      ELSE "status code"
            has_fragment == \E i \in DOMAIN message :
                               message[i] \in {"timed out", "timeout",
                                   "connection refused", "connection reset",
                                   "connection aborted", "temporarily unavailable",
                                   "dns error", "network error"}
        IN IF places(marker) # {}
           THEN ret.result <=>
                   status_after(message, first(marker)) \in {429, 500, 502, 503}
           ELSE ret.result <=> has_fragment

\* C22 witness: the text "STATUS: 503", the code in two runs of digits, has
\* been classified retryable.
C22_Witness ==
    /\ ret.op = "is_retryable_provider_error"
    /\ ret.text = <<"STATUS:", " ", "50", "3">>
    /\ ret.result

----------------------------------------------------------------------------
(* Further claims checked under SpecTurn *)

\* C23: within a turn, once a model call has succeeded on the provider at
\* index i, the next model call starts at index i, and a model call only moves
\* up the chain from where it starts: no provider placed before i is called
\* again in that turn.
C23_TurnSticksToProvider ==
    /\ [][(turn.pc = "loop" /\ turn.fallback = "ok" /\ turn'.pc = "complete")
            => turn'.index = turn.tried[Len(turn.tried)].index]_vars
    /\ [][(turn.pc = "complete" /\ Len(turn'.tried) = Len(turn.tried) + 1)
            => /\ turn'.tried[Len(turn'.tried)].index = turn.index
               /\ turn'.index >= turn.index]_vars

\* C23 witness: the second or a later model call of a turn has called the
\* third provider first, the one that answered the model call before.
C23_Witness ==
    /\ turn.model_calls >= 2
    /\ turn.responses >= 1
    /\ Len(turn.tried) = 1
    /\ turn.tried[1].index = 2
    /\ turn.start_index = 2

----------------------------------------------------------------------------
(* process_message_impl with its conversation: memory recall, the model    *)
(* calls, the tools each response asks for, memory remember.               *)

\* Bound: the iterations of a turn whose response is drawn from every
\* response of ToolResponses with every outcome of its tools; the later ones
\* draw from the first response only, its tool succeeding.
VariedRounds == 2

\* ContentBlock::Text, ::ToolUse and ::ToolResult (the input of a ToolUse
\* decides nothing here but what its executor returns, which is an input of
\* the model).
Text(text) == [type |-> "text", text |-> text]
ToolUse(id, name) == [type |-> "tool_use", id |-> id, name |-> name]
ToolResult(tool_use_id, content) == [type |-> "tool_result", tool_use_id |-> tool_use_id, content |-> content]

\* ChatMessage
ChatMessage(role, content) == [role |-> role, content |-> content]

\* self.tools, by name.
RegisteredTools == {"echo", "schedule_heartbeat"}

\* Mutant of find_tool: every name finds a tool.
find_tool_whatever_the_name(name) == TRUE

\* find_tool(name).is_some()
find_tool(name) == name \in RegisteredTools

\* ToolOutput::success(content) and ToolOutput::error(message)
ToolOutput_success(content) == [content |-> content, is_error |-> FALSE]
ToolOutput_error(message) == [content |-> message, is_error |-> TRUE]

\* What tool.execute(&context, input).await returns: Ok(output), the output
\* a success or one the tool itself marks is_error, or Err(e); error is the
\* text of e.
ToolExecutions ==
    {[ok |-> TRUE, output |-> ToolOutput_success(<<"output">>), error |-> <<>>],
     [ok |-> TRUE, output |-> ToolOutput_error(<<"depth", "limit">>), error |-> <<>>],
     [ok |-> FALSE, output |-> ToolOutput_error(<<>>), error |-> <<"tool", "failed">>]}

NotExecuted == [ok |-> TRUE, output |-> ToolOutput_success(<<>>), error |-> <<>>]

\* match self.find_tool(name) {
\*   Some(tool) => tool.execute(..).await.unwrap_or_else(|e| ToolOutput::error(e.to_string())),
\*   None => ToolOutput::error(format!("unknown tool: {}", name)) }
tool_output(name, execution) ==
    IF find_tool(name)
    THEN IF execution.ok THEN execution.output
         ELSE ToolOutput_error(execution.error)
    ELSE ToolOutput_error(<<"unknown", "tool:", name>>)

\* Mutant of tool_results: the results pushed in front, not at the end.
RECURSIVE tool_results_pushed_in_front(_, _)
tool_results_pushed_in_front(content, executions) ==
    IF content = <<>> THEN <<>>
    ELSE LET block == Head(content)
             rest == tool_results_pushed_in_front(Tail(content), Tail(executions))
         IN IF block.type = "tool_use"
            THEN Append(rest, ToolResult(block.id,
                     tool_output(block.name, Head(executions)).content))
            ELSE rest

\* for block in &response.content { if let ContentBlock::ToolUse { id, name,
\* input } = block { ...; tool_results.push(ContentBlock::ToolResult {
\* tool_use_id: id.clone(), content: output.content }) } }
RECURSIVE tool_results(_, _)
tool_results(content, executions) ==
    IF content = <<>> THEN <<>>
    ELSE LET block == Head(content)
             rest == tool_results(Tail(content), Tail(executions))
         IN IF block.type = "tool_use"
            THEN <<ToolResult(block.id,
                      tool_output(block.name, Head(executions)).content)>> \o rest
            ELSE rest

\* response.content.iter().any(|block| matches!(block, ContentBlock::ToolUse { .. }))
has_tool_use(content) == \E i \in DOMAIN content : content[i].type = "tool_use"

\* extract_text: the texts of the Text blocks, joined by "\n" (here: the
\* sequence of the lines).
RECURSIVE extract_text(_)
extract_text(content) ==
    IF content = <<>> THEN <<>>
    ELSE IF Head(content).type = "text"
         THEN <<Head(content).text>> \o extract_text(Tail(content))
         ELSE extract_text(Tail(content))

\* Ok(final_text)
TurnOkText(final_text) == [kind |-> "ok", text |-> final_text]

\* The responses of the model that ask for tools, and those that do not.
ToolResponses ==
    <<
      <<ToolUse("t1", "echo")>>,
      <<Text("looking"), ToolUse("t1", "web_search"), ToolUse("t2", "echo")>>,
      <<ToolUse("t2", "web_search"), Text("then"), ToolUse("t1", "echo")>>
    >>

FinalResponses ==
    {<<Text("done")>>, <<Text("first"), Text("second")>>, <<>>}

\* What recall_context returns: Ok(entries), Ok(vec![]) (also when no memory
\* provider is attached) or Err(e).
RecallOutcomes ==
    {[ok |-> TRUE, entries |-> <<"likes tea">>],
     [ok |-> TRUE, entries |-> <<>>],
     [ok |-> FALSE, entries |-> <<>>]}

\* match self.recall_context(..).await { Ok(entries) if !entries.is_empty()
\* => Some(..), Err(e) => { warn!(..); None }, _ => None }
memory_context(recall) ==
    IF recall.ok /\ recall.entries # <<>>
    THEN [some |-> TRUE, context |-> recall.entries]
    ELSE [some |-> FALSE, context |-> <<>>]

\* What the two memory.remember calls of remember_turn do: "ok", or which of
\* them fails ("user", "assistant"); "no memory" when no provider is attached.
RememberOutcomes == {"ok", "user", "assistant", "no memory"}

\* remember_turn: the entries it stores and whether it returns Ok(()).
remember_turn(outcome, user_input, assistant_output) ==
    CASE outcome = "no memory" -> [ok |-> TRUE, stored |-> <<>>]
      [] outcome = "user" -> [ok |-> FALSE, stored |-> <<>>]
      [] outcome = "assistant" ->
            [ok |-> FALSE, stored |-> <<[role |-> "user", content |-> user_input]>>]
      [] OTHER ->
            [ok |-> TRUE,
             stored |-> <<[role |-> "user", content |-> user_input],
                          [role |-> "assistant", content |-> assistant_output]>>]

\* Mutant of after_remember: the error of remember_turn is the turn's.
after_remember_propagates(remembered, final_text) ==
    IF remembered.ok THEN TurnOkText(final_text)
    ELSE [kind |-> "memory error", text |-> <<>>]

\* if let Err(e) = self.remember_turn(..).await { warn!(..) }
\* return Ok(final_text)
after_remember(remembered, final_text) == TurnOkText(final_text)

\* pc: "idle", "loop" (at the head of the for loop), "done".
\* response: the content of the last response of the model.
\* executions: what the executors of the last response's tools returned, by
\* block (NotExecuted where no executor ran).
ToolsIdle ==
    [pc |-> "idle", iteration |-> 0, model_calls |-> 0, messages |-> <<>>,
     memory_context |-> [some |-> FALSE, context |-> <<>>],
     recall_ok |-> TRUE, remember |-> "none", stored |-> <<>>,
     response |-> <<>>, executions |-> <<>>,
     result |-> [kind |-> "none", text |-> <<>>]]

\* process_message_impl up to the loop: recall, the system prompt, the user
\* message pushed on the (here empty) history.
ToolsStartTurn(recall) ==
    /\ turn.pc = "idle"
    /\ turn' = [ToolsIdle EXCEPT
                   !.pc = "loop",
                   !.memory_context = memory_context(recall),
                   !.recall_ok = recall.ok,
                   !.messages = <<ChatMessage("user", <<Text("hello")>>)>>]
    /\ UNCHANGED <<storeVars, ret>>

\* An iteration whose model call fails: complete_with_fallback(..).await?
ToolsModelCallFails ==
    /\ turn.pc = "loop"
    /\ tool_loop_continues(turn.iteration)
    /\ turn' = [turn EXCEPT !.pc = "done",
                            !.model_calls = @ + 1,
                            !.result = [kind |-> "provider error", text |-> <<>>]]
    /\ UNCHANGED <<storeVars, ret>>

\* An iteration whose response has no ToolUse block: remember_turn, then
\* return Ok(final_text).
ToolsFinalResponse(content, outcome) ==
    /\ turn.pc = "loop"
    /\ tool_loop_continues(turn.iteration)
    /\ ~has_tool_use(content)
    /\ LET final_text == extract_text(content)
           remembered == remember_turn(outcome, <<"hello">>, final_text)
       IN turn' = [turn EXCEPT !.pc = "done",
                               !.model_calls = @ + 1,
                               !.response = content,
                               !.remember = outcome,
                               !.stored = remembered.stored,
                               !.result = after_remember(remembered, final_text)]
    /\ UNCHANGED <<storeVars, ret>>

\* An iteration whose response has ToolUse blocks: the assistant message, the
\* tools run in the order of their blocks, the user message of their results.
ToolsRound(content, executions) ==
    /\ turn.pc = "loop"
    /\ tool_loop_continues(turn.iteration)
    /\ has_tool_use(content)
    /\ turn' = [turn EXCEPT
                   !.iteration = @ + 1,
                   !.model_calls = @ + 1,
                   !.response = content,
                   !.executions = executions,
                   !.messages = @ \o
                       <<ChatMessage("assistant", content),
                         ChatMessage("user", tool_results(content, executions))>>]
    /\ UNCHANGED <<storeVars, ret>>

\* Past the last iteration: Err(Error::Agent("tool loop exceeded ..")).
ToolsLoopExceeded ==
    /\ turn.pc = "loop"
    /\ ~tool_loop_continues(turn.iteration)
    /\ turn' = [turn EXCEPT !.pc = "done",
                            !.result = [kind |-> "tool loop exceeded", text |-> <<>>]]
    /\ UNCHANGED <<storeVars, ret>>

\* The caller has the turn's result.
ToolsEndTurn ==
    /\ turn.pc = "done"
    /\ turn' = ToolsIdle
    /\ UNCHANGED <<storeVars, ret>>

----------------------------------------------------------------------------
(* SpecTools: turns whose responses ask for registered and unregistered    *)
(* tools, each executor ending in any outcome, over a memory that may fail. *)

\* The outcomes of the executors of a response: one of ToolExecutions for
\* each ToolUse block of a registered tool, NotExecuted for the other blocks.
ExecutionsOf(content) ==
    {x \in [DOMAIN content -> ToolExecutions \cup {NotExecuted}] :
        \A i \in DOMAIN content :
            IF content[i].type = "tool_use" /\ content[i].name \in RegisteredTools
            THEN x[i] \in ToolExecutions
            ELSE x[i] = NotExecuted}

ToolsInit ==
    /\ sessions = {}
    /\ tasks = <<>>
    /\ now = 0
    /\ polled = <<>>
    /\ ret = [op |-> "init"]
    /\ turn = ToolsIdle

ToolsStart == \E recall \in RecallOutcomes : ToolsStartTurn(recall)

ToolsFinal ==
    \E content \in FinalResponses, outcome \in RememberOutcomes :
        ToolsFinalResponse(content, outcome)

ToolsVariedRound ==
    /\ turn.iteration < VariedRounds
    /\ \E r \in DOMAIN ToolResponses :
         \E x \in ExecutionsOf(ToolResponses[r]) : ToolsRound(ToolResponses[r], x)

ToolsLaterRound ==
    /\ turn.iteration >= VariedRounds
    /\ ToolsRound(ToolResponses[1], <<CHOOSE x \in ToolExecutions : x.ok /\ ~x.output.is_error>>)

ToolsNext ==
    \/ ToolsStart
    \/ ToolsModelCallFails
    \/ ToolsFinal
    \/ ToolsVariedRound
    \/ ToolsLaterRound
    \/ ToolsLoopExceeded
    \/ ToolsEndTurn

SpecTools == ToolsInit /\ [][ToolsNext]_vars

----------------------------------------------------------------------------
(* Claims checked under SpecTools *)

\* The ToolUse blocks of a response, in order.
ToolUsesOf(content) == SelectSeq(content, LAMBDA block : block.type = "tool_use")

\* The positions in a response of its ToolUse blocks, in order.
RECURSIVE ToolUsePositions(_, _)
ToolUsePositions(content, from) ==
    IF from > Len(content) THEN <<>>
    ELSE IF content[from].type = "tool_use"
         THEN <<from>> \o ToolUsePositions(content, from + 1)
         ELSE ToolUsePositions(content, from + 1)

\* C24: an iteration in which a tool call names an unregistered tool, or in
\* which the executor of a registered tool returns an error, does not end the
\* turn: the result of that call is a ToolResult holding the error's text
\* ("unknown tool: <name>", or the text of the executor's error), the turn
\* stays in its loop without a result, and while the loop has iterations left
\* the step that follows is the next model call.
C24_ToolFailureGoesOn ==
    /\ [][(turn.pc = "loop" /\ turn'.iteration = turn.iteration + 1)
            => LET content == turn'.messages[Len(turn'.messages) - 1].content
                   results == turn'.messages[Len(turn'.messages)].content
                   at == ToolUsePositions(content, 1)
               IN \A k \in DOMAIN at :
                     LET block == content[at[k]]
                         execution == turn'.executions[at[k]]
                     IN (block.name \notin RegisteredTools \/ ~execution.ok)
                        => /\ results[k].type = "tool_result"
                           /\ results[k].tool_use_id = block.id
                           /\ results[k].content =
                                 IF block.name \notin RegisteredTools
                                 THEN <<"unknown", "tool:", block.name>>
                                 ELSE execution.error
                           /\ turn'.pc = "loop"
                           /\ turn'.result.kind = "none"]_vars
    /\ [][(/\ turn.pc = "loop"
           /\ turn.iteration > 0
           /\ turn.iteration < MAX_TOOL_ITERATIONS
           /\ LET content == turn.messages[Len(turn.messages) - 1].content
              IN \E i \in DOMAIN content :
                    /\ content[i].type = "tool_use"
                    /\ \/ content[i].name \notin RegisteredTools
                       \/ ~turn.executions[i].ok)
            => turn'.model_calls = turn.model_calls + 1]_vars

\* C24 witness: a turn has returned the model's text after an iteration in
\* which one tool was unregistered and the executor of the other returned an
\* error.
C24_Witness ==
    /\ turn.pc = "done"
    /\ turn.result = TurnOkText(<<"done">>)
    /\ turn.iteration = 1
    /\ turn.messages[2].content = ToolResponses[2]
    /\ ~turn.executions[3].ok
    /\ turn.messages[3].content =
           <<ToolResult("t1", <<"unknown", "tool:", "web_search">>),
             ToolResult("t2", <<"tool", "failed">>)>>

\* C25: in the conversation of a turn, every assistant message that holds
\* ToolUse blocks is followed at once by a user message that holds only
\* ToolResult blocks, as many as the assistant message has ToolUse blocks,
\* the k-th of them carrying the id of the k-th ToolUse block.
C25_ToolResultsMatchToolUses ==
    turn.pc # "idle" =>
        \A i \in DOMAIN turn.messages :
            (turn.messages[i].role = "assistant" /\ has_tool_use(turn.messages[i].content))
            => /\ i < Len(turn.messages)
               /\ turn.messages[i + 1].role = "user"
               /\ LET uses == ToolUsesOf(turn.messages[i].content)
                      results == turn.messages[i + 1].content
                  IN /\ Len(results) = Len(uses)
                     /\ \A k \in DOMAIN results :
                           /\ results[k].type = "tool_result"
                           /\ results[k].tool_use_id = uses[k].id

\* C25 witness: the conversation holds the user message of the results of a
\* response with two ToolUse blocks, t2 before t1, around a Text block.
C25_Witness ==
    /\ turn.pc = "loop"
    /\ Len(turn.messages) = 5
    /\ turn.messages[4].content = ToolResponses[3]
    /\ Len(turn.messages[5].content) = 2
    /\ turn.messages[5].content[1].tool_use_id = "t2"
    /\ turn.messages[5].content[2].tool_use_id = "t1"

\* C26: a turn whose memory recall failed goes on to its model calls, and a
\* turn whose model has given its final response returns Ok with the text of
\* that response (the texts of its Text blocks, in order), whether
\* remember_turn stored both entries, failed on the first or failed on the
\* second; no turn ends in an error of the memory.
C26_MemoryFailureNeverFailsTurn ==
    /\ turn.result.kind \in {"none", "ok", "provider error", "tool loop exceeded"}
    /\ (turn.pc = "loop" /\ ~turn.recall_ok)
        => /\ turn.result.kind = "none"
           /\ ~turn.memory_context.some
    /\ (turn.pc = "done" /\ turn.remember # "none")
        => LET texts == SelectSeq(turn.response, LAMBDA block : block.type = "text")
           IN /\ turn.result.kind = "ok"
              /\ turn.result.text = [k \in DOMAIN texts |-> texts[k].text]

\* C26 witness: a turn whose recall failed and whose remember_turn failed on
\* the assistant entry, after storing the user entry, has returned the two
\* lines of the model's final response.
C26_Witness ==
    /\ turn.pc = "done"
    /\ ~turn.recall_ok
    /\ turn.remember = "assistant"
    /\ Len(turn.stored) = 1
    /\ turn.result = TurnOkText(<<"first", "second">>)

----------------------------------------------------------------------------
(* The context budget: estimate_tokens, trim_messages_to_budget and        *)
(* compact_messages.  A text is modelled by its length in bytes.           *)

\* Bound: the longest conversation handed to trim_messages_to_budget and
\* compact_messages.
MaxMessages == 3

\* ContentBlock::Text, ::ToolUse (input.to_string() of the given length),
\* ::ToolResult and ::Image, as estimate_tokens looks at them.
TextOfLen(chars) == [type |-> "text", chars |-> chars]
ToolUseOfLen(chars) == [type |-> "tool_use", chars |-> chars]
ToolResultOfLen(chars) == [type |-> "tool_result", chars |-> chars]
Image == [type |-> "image", chars |-> 0]

\* The chars estimate_tokens counts for one part.
part_chars(part) == IF part.type = "image" THEN 1000 ELSE part.chars

RECURSIVE parts_chars(_)
parts_chars(parts) ==
    IF parts = <<>> THEN 0 ELSE part_chars(Head(parts)) + parts_chars(Tail(parts))

RECURSIVE messages_chars(_)
messages_chars(messages) ==
    IF messages = <<>> THEN 0
    ELSE parts_chars(Head(messages).content) + messages_chars(Tail(messages))

\* tool.description.len() + tool.input_schema.to_string().len(), summed.
RECURSIVE tools_chars(_)
tools_chars(tools) ==
    IF tools = <<>> THEN 0
    ELSE Head(tools).description + Head(tools).input_schema + tools_chars(Tail(tools))

\* estimate_tokens: system is NULL for None, else the length of the prompt.
estimate_tokens(messages, system, tools) ==
    ((IF system = NULL THEN 0 ELSE system) + messages_chars(messages) + tools_chars(tools)) \div 4

\* Mutant of trim_messages_to_budget: one message removed at most.
trim_messages_once(messages, system, tools, max_tokens) ==
    IF Len(messages) > 1 /\ estimate_tokens(messages, system, tools) > max_tokens
    THEN Tail(messages)
    ELSE messages

\* while messages.len() > 1 && estimate_tokens(..) > max_tokens { messages.remove(0); }
RECURSIVE trim_messages_to_budget(_, _, _, _)
trim_messages_to_budget(messages, system, tools, max_tokens) ==
    IF Len(messages) > 1 /\ estimate_tokens(messages, system, tools) > max_tokens
    THEN trim_messages_to_budget(Tail(messages), system, tools, max_tokens)
    ELSE messages

\* Mutant of drop_count: the loop runs while temp is not empty.
RECURSIVE drop_count_to_empty(_, _, _, _)
drop_count_to_empty(temp, system, tools, target) ==
    IF Len(temp) > 0 /\ estimate_tokens(temp, system, tools) > target
    THEN 1 + drop_count_to_empty(Tail(temp), system, tools, target)
    ELSE 0

\* let mut temp = messages.clone();
\* while temp.len() > 1 && estimate_tokens(&temp, ..) > target { temp.remove(0); drop_count += 1; }
RECURSIVE drop_count(_, _, _, _)
drop_count(temp, system, tools, target) ==
    IF Len(temp) > 1 /\ estimate_tokens(temp, system, tools) > target
    THEN 1 + drop_count(Tail(temp), system, tools, target)
    ELSE 0

\* Mutant of is_empty: no text is empty.
is_empty_never(text) == FALSE

\* summary_text.is_empty(), summary_text the lines of extract_text joined by
\* "\n": no line, or one empty line.
is_empty(text) == text = <<>> \/ text = <<"">>

\* Option<String>
None == [some |-> FALSE, text |-> <<>>]
Some(text) == [some |-> TRUE, text |-> text]

\* What provider.complete(&summarize_request) returns.
SummarizeOutcomes ==
    {[ok |-> FALSE, content |-> <<>>],
     [ok |-> TRUE, content |-> <<>>],
     [ok |-> TRUE, content |-> <<Text("")>>],
     [ok |-> TRUE, content |-> <<ToolUse("t1", "echo")>>],
     [ok |-> TRUE, content |-> <<Text(""), Text("")>>],
     [ok |-> TRUE, content |-> <<Text("summary")>>]}

\* compact_messages: the Option it returns, the messages it leaves, the
\* messages it asked the provider to summarize (none when it did not call
\* it), and the path it took.
compact_messages(messages, system, tools, max_tokens, completion, summarization_enabled) ==
    LET current_tokens == estimate_tokens(messages, system, tools)
        threshold == (max_tokens * 3) \div 4
        target == (max_tokens * 7) \div 10
        dropped == drop_count(messages, system, tools, target)
        trimmed == trim_messages_to_budget(messages, system, tools, max_tokens)
        trim(path, asked) == [result |-> None, messages |-> trimmed, to_summarize |-> asked, path |-> path]
        to_summarize == SubSeq(messages, 1, dropped)
    IN IF current_tokens <= threshold
       THEN [result |-> None, messages |-> messages, to_summarize |-> <<>>, path |-> "no-op"]
       ELSE IF ~summarization_enabled \/ Len(messages) <= 1
       THEN trim("naive trim", <<>>)
       ELSE IF dropped = 0
       THEN trim("nothing to drop", <<>>)
       ELSE IF ~completion.ok
       THEN trim("summarization failed", to_summarize)
       ELSE IF is_empty(extract_text(completion.content))
       THEN trim("summarization empty", to_summarize)
       ELSE [result |-> Some(extract_text(completion.content)),
             messages |-> SubSeq(messages, dropped + 1, Len(messages)),
             to_summarize |-> to_summarize,
             path |-> "summarized"]

----------------------------------------------------------------------------
(* SpecCompact: trim_messages_to_budget and compact_messages applied to    *)
(* conversations of one to MaxMessages messages under small and large      *)
(* budgets.                                                                *)

\* The messages of the conversations: a short user text, an assistant
\* message with a text and a ToolUse, a user message of one ToolResult, a
\* user message with an image.
CompactMessages ==
    {ChatMessage("user", <<TextOfLen(8)>>),
     ChatMessage("assistant", <<TextOfLen(4), ToolUseOfLen(12)>>),
     ChatMessage("user", <<ToolResultOfLen(40)>>),
     ChatMessage("user", <<Image>>)}

CompactConversations == UNION {[1..n -> CompactMessages] : n \in 1..MaxMessages}

CompactSystems == {NULL, 20}

CompactTools == {<<>>, <<[description |-> 10, input_schema |-> 30]>>}

CompactBudgets == {0, 3, 10, 14, 20, 300}

CompactInit ==
    /\ sessions = {}
    /\ tasks = <<>>
    /\ now = 0
    /\ polled = <<>>
    /\ turn = TurnIdle
    /\ ret \in {[op |-> "conversation", messages |-> m, system |-> s, tools |-> t, max_tokens |-> b] :
                   m \in CompactConversations, s \in CompactSystems,
                   t \in CompactTools, b \in CompactBudgets}

\* trim_messages_to_budget(&mut messages, &system, &tool_defs, max_ctx)
Trim ==
    /\ ret.op = "conversation"
    /\ ret' = [op |-> "trim_messages_to_budget",
               args |-> ret,
               messages |-> trim_messages_to_budget(ret.messages, ret.system, ret.tools, ret.max_tokens)]
    /\ UNCHANGED <<storeVars, turn>>

\* compact_messages(&mut messages, &system, &tool_defs, max_ctx, provider,
\* session_summary, self.summarization_enabled).await
Compact ==
    /\ ret.op = "conversation"
    /\ \E completion \in SummarizeOutcomes, summarization_enabled \in BOOLEAN :
          ret' = [op |-> "compact_messages",
                  args |-> ret,
                  completion |-> completion,
                  summarization_enabled |-> summarization_enabled,
                  out |-> compact_messages(ret.messages, ret.system, ret.tools, ret.max_tokens,
                                           completion, summarization_enabled)]
    /\ UNCHANGED <<storeVars, turn>>

CompactNext ==
    \/ Trim
    \/ Compact

SpecCompact == CompactInit /\ [][CompactNext]_vars

----------------------------------------------------------------------------
(* Claims checked under SpecCompact *)

\* C27: after trim_messages_to_budget has run on a conversation of at least
\* one message, either exactly one message remains or the token estimate of
\* the remaining messages with the system prompt and the tools is at most
\* max_tokens.
C27_TrimmedToOneOrBudget ==
    ret.op = "trim_messages_to_budget" =>
        \/ Len(ret.messages) = 1
        \/ estimate_tokens(ret.messages, ret.args.system, ret.args.tools) <= ret.args.max_tokens

\* C27 witness: a conversation of three messages over the budget has been
\* trimmed to its last two, which fit.
C27_Witness ==
    /\ ret.op = "trim_messages_to_budget"
    /\ Len(ret.args.messages) = 3
    /\ Len(ret.messages) = 2
    /\ estimate_tokens(ret.args.messages, ret.args.system, ret.args.tools) > ret.args.max_tokens
    /\ estimate_tokens(ret.messages, ret.args.system, ret.args.tools) <= ret.args.max_tokens

\* C28: whatever path compact_messages takes (no-op, naive trim, nothing to
\* drop, summarization done, summarization failed or empty), the messages it
\* leaves are a non-empty tail of the messages it was given: the last
\* message of the conversation is still the last one.
C28_CompactKeepsLastMessage ==
    ret.op = "compact_messages" =>
        LET before == ret.args.messages
            after == ret.out.messages
        IN /\ Len(after) >= 1
           /\ Len(after) <= Len(before)
           /\ after = SubSeq(before, Len(before) - Len(after) + 1, Len(before))
           /\ after[Len(after)] = before[Len(before)]

\* C28 witness: a summarization that succeeded has drained all the messages
\* of a conversation of three but the last, which alone is over the budget.
C28_Witness ==
    /\ ret.op = "compact_messages"
    /\ ret.out.path = "summarized"
    /\ Len(ret.args.messages) = 3
    /\ Len(ret.out.messages) = 1
    /\ estimate_tokens(ret.out.messages, ret.args.system, ret.args.tools) > ret.args.max_tokens

\* C29: compact_messages returns Some(summary) only when the summarization
\* call succeeded with a text that is not empty, and the summary is that
\* text; when the call fails or its text is empty compact_messages returns
\* None and leaves the messages as trim_messages_to_budget leaves them.
C29_SummaryNonEmptyElseTrim ==
    ret.op = "compact_messages" =>
        LET texts == SelectSeq(ret.completion.content, LAMBDA block : block.type = "text")
            lines == [k \in DOMAIN texts |-> texts[k].text]
            empty == \A k \in DOMAIN lines : lines[k] = "" /\ Len(lines) = 1
            called == ret.out.to_summarize # <<>>
        IN /\ ret.out.result.some
              => /\ ret.out.result.text # <<>>
                 /\ ret.out.result.text # <<"">>
                 /\ called /\ ret.completion.ok /\ ~empty
                 /\ ret.out.result.text = lines
           /\ (called /\ (~ret.completion.ok \/ empty))
              => /\ ~ret.out.result.some
                 /\ ret.out.messages =
                       trim_messages_to_budget(ret.args.messages, ret.args.system,
                                               ret.args.tools, ret.args.max_tokens)

\* C29 witness: the summarization of the first message of a conversation of
\* three returned a response whose only text is empty; compact_messages
\* returned None and left the last two messages.
C29_Witness ==
    /\ ret.op = "compact_messages"
    /\ ret.out.path = "summarization empty"
    /\ ret.completion.content = <<Text("")>>
    /\ ~ret.out.result.some
    /\ Len(ret.args.messages) = 3
    /\ Len(ret.out.to_summarize) = 1
    /\ Len(ret.out.messages) = 2

----------------------------------------------------------------------------
(* process_message_streaming_impl: the loop that asks the active provider  *)
(* for a stream, consumes it, and falls back to complete_with_fallback.    *)

\* Bound: the providers of the chain in SpecStream.
StreamProviders == 2

\* Bound: the iterations of a streaming turn that draw from every stream and
\* every outcome; the later ones draw from the first tool-using stream only.
StreamVariedRounds == 2

\* The items of a stream: Ok(StreamEvent::..) or Err(e).
StreamItem(type, text, id, name) == [ok |-> type # "error", type |-> type, text |-> text, id |-> id, name |-> name]
TextDelta(text) == StreamItem("TextDelta", text, "", "")
ToolUseStart(id, name) == StreamItem("ToolUseStart", "", id, name)
InputJsonDelta(json) == StreamItem("InputJsonDelta", json, "", "")
ContentBlockStop == StreamItem("ContentBlockStop", "", "", "")
MessageDelta == StreamItem("MessageDelta", "", "", "")
MessageStop == StreamItem("MessageStop", "", "", "")
StreamItemErr == StreamItem("error", "", "", "")

\* Mutant of push_str: the fragment replaces the input gathered so far.
push_str_replacing(input, json) == <<json>>

\* input.push_str(&json): the accumulated input_json, fragment by fragment.
push_str(input, json) == Append(input, json)

\* The JSON tokens a fragment is made of.
json_tokens(fragment) ==
    CASE fragment = "{}" -> <<"{", "}">>
      [] fragment = "{\"x\":1}" -> <<"{", "\"x\":1", "}">>
      [] OTHER -> <<fragment>>

\* The tokens of the concatenation of the fragments.
RECURSIVE json_text(_)
json_text(input_json) ==
    IF input_json = <<>> THEN <<>>
    ELSE json_tokens(Head(input_json)) \o json_text(Tail(input_json))

\* serde_json::Value: Null, or an object with its members.
Value_Null == [kind |-> "null", members |-> <<>>]
Value_Object(members) == [kind |-> "object", members |-> members]

\* serde_json::from_str(input_json): Ok(value) when the whole text is one
\* JSON document (here: an object of at most one member), else Err.
from_str(input_json) ==
    LET text == json_text(input_json)
    IN IF text = <<"{", "}">>
       THEN [ok |-> TRUE, value |-> Value_Object(<<>>)]
       ELSE IF Len(text) = 3 /\ text[1] = "{" /\ text[3] = "}" /\ text[2] = "\"x\":1"
       THEN [ok |-> TRUE, value |-> Value_Object(<<text[2]>>)]
       ELSE [ok |-> FALSE, value |-> Value_Null]

\* serde_json::from_str(input_json).unwrap_or_default(): Value::default()
\* is Value::Null.
parse_input(input_json) ==
    IF from_str(input_json).ok THEN from_str(input_json).value ELSE Value_Null

\* ContentBlock::ToolUse { id, name, input }
ToolUseWithInput(id, name, input) == [type |-> "tool_use", id |-> id, name |-> name, input |-> input]

\* for (id, name, input_json) in &tool_uses { content_blocks.push(
\* ContentBlock::ToolUse { id, name, input: from_str(..).unwrap_or_default() }) }
RECURSIVE synthesized_tool_uses(_)
synthesized_tool_uses(tool_uses) ==
    IF tool_uses = <<>> THEN <<>>
    ELSE <<ToolUseWithInput(Head(tool_uses).id, Head(tool_uses).name,
                            parse_input(Head(tool_uses).input_json))>>
         \o synthesized_tool_uses(Tail(tool_uses))

\* The inputs tool.execute is called with, for the tools find_tool finds:
\* from_str(input_json).unwrap_or_default() again.
RECURSIVE executed_inputs(_)
executed_inputs(tool_uses) ==
    IF tool_uses = <<>> THEN <<>>
    ELSE (IF find_tool(Head(tool_uses).name)
          THEN <<[id |-> Head(tool_uses).id,
                  input |-> parse_input(Head(tool_uses).input_json)]>>
          ELSE <<>>)
         \o executed_inputs(Tail(tool_uses))

\* while let Some(event) = stream.next().await { match event? { .. } }:
\* response_text (its pieces), tool_uses (id, name, input_json) and
\* current_tool (none or one) after the items; error when an item is Err,
\* the pieces being those forwarded before it.
RECURSIVE consume_stream(_, _, _, _)
consume_stream(items, response_text, tool_uses, current_tool) ==
    IF items = <<>>
    THEN [error |-> FALSE, response_text |-> response_text, tool_uses |-> tool_uses]
    ELSE LET event == Head(items)
         IN CASE ~event.ok ->
                   [error |-> TRUE, response_text |-> response_text, tool_uses |-> tool_uses]
              [] event.type = "TextDelta" ->
                   consume_stream(Tail(items), Append(response_text, event.text),
                                  tool_uses, current_tool)
              [] event.type = "ToolUseStart" ->
                   consume_stream(Tail(items), response_text, tool_uses,
                                  <<[id |-> event.id, name |-> event.name,
                                     input_json |-> <<>>]>>)
              [] event.type = "InputJsonDelta" ->
                   consume_stream(Tail(items), response_text, tool_uses,
                                  [i \in DOMAIN current_tool |->
                                      [current_tool[i] EXCEPT
                                          !.input_json = push_str(@, event.text)]])
              [] event.type = "ContentBlockStop" ->
                   consume_stream(Tail(items), response_text,
                                  tool_uses \o current_tool, <<>>)
              [] event.type = "MessageStop" ->
                   [error |-> FALSE, response_text |-> response_text, tool_uses |-> tool_uses]
              [] OTHER ->
                   consume_stream(Tail(items), response_text, tool_uses, current_tool)

\* Mutant of stream_falls_back: no result of stream_complete falls back.
stream_falls_back_never(stream_result) == FALSE

\* match stream_result { Ok(mut stream) => .., Err(stream_err) => .. }: the
\* Err arm is the one that calls complete_with_fallback.
stream_falls_back(stream_result) == ~stream_result.ok

\* What provider.stream_complete(&request).await returns: Err(e), or
\* Ok(stream) with the items the stream yields.
StreamResults ==
    <<
      [ok |-> TRUE, items |-> <<ToolUseStart("t1", "echo"), InputJsonDelta("{"),
                                InputJsonDelta("\"x\":1"), InputJsonDelta("}"),
                                ContentBlockStop, MessageDelta, MessageStop>>],
      [ok |-> TRUE, items |-> <<TextDelta("hi"), MessageDelta, MessageStop>>],
      [ok |-> TRUE, items |-> <<TextDelta("let me"), ToolUseStart("t1", "web_search"),
                                ContentBlockStop>>],
      [ok |-> TRUE, items |-> <<TextDelta("par"), StreamItemErr, TextDelta("tial"), MessageStop>>],
      [ok |-> TRUE, items |-> <<StreamItemErr>>],
      [ok |-> FALSE, items |-> <<>>],
      [ok |-> TRUE, items |-> <<TextDelta("two"), ContentBlockStop,
                                ToolUseStart("t1", "echo"), InputJsonDelta("{\"x\":1}"),
                                ContentBlockStop,
                                ToolUseStart("t2", "echo"), InputJsonDelta("oops"),
                                ContentBlockStop, MessageStop>>],
      [ok |-> TRUE, items |-> <<InputJsonDelta("}"), ToolUseStart("t1", "echo"),
                                ToolUseStart("t2", "echo"), InputJsonDelta("{"),
                                InputJsonDelta("}"), ContentBlockStop, ContentBlockStop,
                                ToolUseStart("t3", "echo"), InputJsonDelta("{}"),
                                MessageStop, ContentBlockStop>>]
    >>

\* What complete_with_fallback(&providers, &request, active_provider_idx)
\* returns: Err(e), or Ok((response, used_provider_idx)).
FallbackResults(active_provider_idx) ==
    {[ok |-> FALSE, content |-> <<>>, used_provider_idx |-> active_provider_idx]}
    \cup {[ok |-> TRUE, content |-> c, used_provider_idx |-> i] :
             c \in {<<Text("done")>>, ToolResponses[1]},
             i \in active_provider_idx..(StreamProviders - 1)}

NoFallback == [ok |-> TRUE, content |-> <<>>, used_provider_idx |-> 0]

\* Text blocks as the pieces of text pushed on full_response.
RECURSIVE texts_of(_)
texts_of(content) ==
    IF content = <<>> THEN <<>>
    ELSE IF Head(content).type = "text"
         THEN <<Head(content).text>> \o texts_of(Tail(content))
         ELSE texts_of(Tail(content))

\* pc: "idle", "loop", "done".  full_response and deltas: the pieces pushed
\* on full_response and sent on delta_tx.  last: what the last iteration
\* did: whether stream_complete returned Ok and whether an item of its stream
\* was Err, the items of the stream, the inputs its tools were executed with,
\* the request (modelled by the messages it holds), and the calls
\* of complete_with_fallback with their request and start index.
StreamIdle ==
    [pc |-> "idle", iteration |-> 0, active_provider_idx |-> 0, messages |-> <<>>,
     full_response |-> <<>>, deltas |-> <<>>,
     last |-> [stream_ok |-> TRUE, item_error |-> FALSE, items |-> <<>>,
               executed |-> <<>>, request |-> <<>>,
               fallback_calls |-> 0, fallback_request |-> <<>>,
               fallback_start |-> 0, fallback_ok |-> FALSE],
     remember |-> "none",
     result |-> [kind |-> "none", text |-> <<>>]]

\* process_message_streaming_impl up to the loop.
StreamStartTurn ==
    /\ turn.pc = "idle"
    /\ turn' = [StreamIdle EXCEPT
                   !.pc = "loop",
                   !.messages = <<ChatMessage("user", <<Text("hello")>>)>>]
    /\ UNCHANGED <<storeVars, ret>>

StreamFinal_unsent(t, pieces, sent, outcome) ==
    LET full_response == t.full_response \o pieces
    IN [t EXCEPT !.pc = "done",
                 !.full_response = full_response,
                 !.remember = outcome,
                 !.result = after_remember(remember_turn(outcome, <<"hello">>, full_response),
                                           full_response)]

\* The turn after a response without tools: remember_turn, Ok(full_response).
StreamFinal(t, pieces, sent, outcome) ==
    LET full_response == t.full_response \o pieces
        remembered == remember_turn(outcome, <<"hello">>, full_response)
    IN [t EXCEPT !.pc = "done",
                 !.full_response = full_response,
                 !.deltas = @ \o sent,
                 !.remember = outcome,
                 !.result = after_remember(remembered, full_response)]

\* The turn after a response with tools: the assistant message, the tools,
\* the user message of their results.
StreamTools(t, content, executions) ==
    [t EXCEPT !.iteration = @ + 1,
              !.messages = @ \o
                  <<ChatMessage("assistant", content),
                    ChatMessage("user", tool_results(content, executions))>>]

\* One iteration of the loop, provider.stream_complete(&request) returning
\* stream_result; fallback is what complete_with_fallback returns if called,
\* executions what the executors return, outcome what remember_turn meets.
StreamIteration(stream_result, fallback, executions, outcome) ==
    /\ turn.pc = "loop"
    /\ tool_loop_continues(turn.iteration)
    /\ LET request == turn.messages
           consumed == consume_stream(stream_result.items, <<>>, <<>>, <<>>)
           streamed == [turn EXCEPT
                           !.last = [stream_ok |-> stream_result.ok,
                                     item_error |-> consumed.error,
                                     items |-> stream_result.items,
                                     executed |-> <<>>,
                                     request |-> request,
                                     fallback_calls |-> 0, fallback_request |-> <<>>,
                                     fallback_start |-> 0, fallback_ok |-> FALSE]]
           called == [turn EXCEPT
                         !.last = [stream_ok |-> stream_result.ok,
                                   item_error |-> FALSE,
                                   items |-> <<>>,
                                   executed |-> <<>>,
                                   request |-> request,
                                   fallback_calls |-> 1, fallback_request |-> request,
                                   fallback_start |-> turn.active_provider_idx,
                                   fallback_ok |-> fallback.ok]]
           response_text == consumed.response_text
           content_blocks == (IF response_text # <<>>
                              THEN <<Text(response_text)>> ELSE <<>>)
                             \o synthesized_tool_uses(consumed.tool_uses)
       IN turn' =
            IF ~stream_falls_back(stream_result)
            THEN IF consumed.error
                 THEN [streamed EXCEPT !.pc = "done",
                                       !.deltas = @ \o response_text,
                                       !.result = [kind |-> "stream error", text |-> <<>>]]
                 ELSE IF consumed.tool_uses = <<>>
                 THEN StreamFinal(streamed, response_text, response_text, outcome)
                 ELSE LET ran == StreamTools(streamed, content_blocks, executions)
                          full_response == turn.full_response \o response_text
                          separator == IF full_response # <<>> THEN <<"\n\n">> ELSE <<>>
                      IN [ran EXCEPT !.last.executed = executed_inputs(consumed.tool_uses),
                                     !.full_response = full_response \o separator,
                                     !.deltas = @ \o response_text \o separator]
            ELSE IF ~fallback.ok
                 THEN [called EXCEPT !.pc = "done",
                                     !.result = [kind |-> "provider error", text |-> <<>>]]
                 ELSE LET got == [called EXCEPT
                                     !.active_provider_idx = fallback.used_provider_idx]
                      IN IF ~has_tool_use(fallback.content)
                         THEN StreamFinal(got, texts_of(fallback.content),
                                          texts_of(fallback.content), outcome)
                         ELSE StreamTools(got, fallback.content, executions)
    /\ UNCHANGED <<storeVars, ret>>

\* Past the last iteration: Err(Error::Agent("tool loop exceeded ..")).
StreamLoopExceeded ==
    /\ turn.pc = "loop"
    /\ ~tool_loop_continues(turn.iteration)
    /\ turn' = [turn EXCEPT !.pc = "done",
                            !.result = [kind |-> "tool loop exceeded", text |-> <<>>]]
    /\ UNCHANGED <<storeVars, ret>>

\* The caller has the turn's result.
StreamEndTurn ==
    /\ turn.pc = "done"
    /\ turn' = StreamIdle
    /\ UNCHANGED <<storeVars, ret>>

----------------------------------------------------------------------------
(* SpecStream: streaming turns over a chain of StreamProviders providers,  *)
(* each stream_complete ending in an error, in a stream that breaks, or in *)
(* a whole stream.                                                         *)

StreamInit ==
    /\ sessions = {}
    /\ tasks = <<>>
    /\ now = 0
    /\ polled = <<>>
    /\ ret = [op |-> "init"]
    /\ turn = StreamIdle

StreamVariedRound ==
    /\ turn.pc = "loop"
    /\ turn.iteration < StreamVariedRounds
    /\ \E r \in DOMAIN StreamResults, x \in ToolExecutions, outcome \in RememberOutcomes :
          \E fallback \in (IF StreamResults[r].ok THEN {NoFallback}
                           ELSE FallbackResults(turn.active_provider_idx)) :
              StreamIteration(StreamResults[r], fallback, <<x, x, x>>, outcome)

StreamLaterRound ==
    /\ turn.pc = "loop"
    /\ turn.iteration >= StreamVariedRounds
    /\ StreamIteration(StreamResults[1], NoFallback, <<CHOOSE x \in ToolExecutions : x.ok /\ ~x.output.is_error>>, "ok")

StreamNext ==
    \/ StreamStartTurn
    \/ StreamVariedRound
    \/ StreamLaterRound
    \/ StreamLoopExceeded
    \/ StreamEndTurn

SpecStream == StreamInit /\ [][StreamNext]_vars

----------------------------------------------------------------------------
(* Claims checked under SpecStream *)

\* C30 as stated: in every iteration of the streaming loop in which the
\* streaming completion fails (stream_complete returns an error, or the
\* stream it returned yields an error), complete_with_fallback is called with
\* the request of that iteration, and the turn fails in that iteration only
\* if that call fails.
C30_StreamFailureFallsBack ==
    [][(/\ turn.pc = "loop"
        /\ tool_loop_continues(turn.iteration)
        /\ (~turn'.last.stream_ok \/ turn'.last.item_error))
        => /\ turn'.last.fallback_calls = 1
           /\ turn'.last.fallback_request = turn.messages
           /\ turn'.result.kind \notin {"none", "ok"} => ~turn'.last.fallback_ok]_vars

\* C30 amended: in every iteration in which stream_complete returns an
\* error, complete_with_fallback is called once with the request of that
\* iteration, starting at the active provider, and the turn fails in that
\* iteration only if that call fails; in an iteration in which
\* stream_complete returns a stream one of whose items is an error, the turn
\* fails with that error and complete_with_fallback is not called.
C30_StreamOpenFailureFallsBack ==
    /\ [][(/\ turn.pc = "loop"
           /\ tool_loop_continues(turn.iteration)
           /\ ~turn'.last.stream_ok)
           => /\ turn'.last.fallback_calls = 1
              /\ turn'.last.request = turn.messages
              /\ turn'.last.fallback_request = turn'.last.request
              /\ turn'.last.fallback_start = turn.active_provider_idx
              /\ turn'.result.kind \notin {"none", "ok"} <=> ~turn'.last.fallback_ok]_vars
    /\ [][(/\ turn.pc = "loop"
           /\ tool_loop_continues(turn.iteration)
           /\ turn'.last.stream_ok
           /\ turn'.last.item_error)
           => /\ turn'.last.fallback_calls = 0
              /\ turn'.pc = "done"
              /\ turn'.result.kind = "stream error"]_vars

\* C30 witness: in its second iteration a turn got an error from
\* stream_complete, called complete_with_fallback with the three messages of
\* its conversation, and returned the text of the second provider.
C30_Witness ==
    /\ turn.pc = "done"
    /\ turn.iteration = 1
    /\ ~turn.last.stream_ok
    /\ turn.last.fallback_calls = 1
    /\ Len(turn.last.fallback_request) = 3
    /\ turn.last.fallback_ok
    /\ turn.active_provider_idx = 1
    /\ turn.result.kind = "ok"
    /\ turn.result.text[Len(turn.result.text)] = "done"

\* The positions 1..n in order.
Positions(n) == [i \in 1..n |-> i]

\* The items of a stream that are read: those before its first MessageStop.
ReadItems(items) ==
    LET stops == {i \in DOMAIN items : items[i].type = "MessageStop"}
    IN IF stops = {} THEN items
       ELSE SubSeq(items, 1, (CHOOSE i \in stops : \A j \in stops : i <= j) - 1)

\* The tool-use blocks of a stream: for each ContentBlockStop that closes a
\* ToolUseStart (no other ToolUseStart or ContentBlockStop in between), the
\* position of the start and of the stop, in the order of the stops.
ToolUseBlocks(items) ==
    LET read == ReadItems(items)
        opener(e) == {s \in 1..(e - 1) :
                         /\ read[s].type = "ToolUseStart"
                         /\ \A j \in (s + 1)..(e - 1) :
                               read[j].type \notin {"ToolUseStart", "ContentBlockStop"}}
        closing == SelectSeq(Positions(Len(read)),
                       LAMBDA e : read[e].type = "ContentBlockStop" /\ opener(e) # {})
    IN [k \in DOMAIN closing |->
           [start |-> CHOOSE s \in opener(closing[k]) : TRUE, stop |-> closing[k]]]

\* The fragments of the InputJsonDelta items of a tool-use block, in order.
FragmentsOf(items, block) ==
    LET inside == SelectSeq(Positions(Len(items)),
                      LAMBDA j : /\ j > block.start
                                 /\ j < block.stop
                                 /\ items[j].type = "InputJsonDelta")
    IN [k \in DOMAIN inside |-> items[inside[k]].text]

\* C31: when an iteration of the streaming loop synthesizes an assistant
\* message from a stream, the ToolUse blocks of that message are, in order,
\* one for each tool-use block of the stream (a ToolUseStart, the
\* InputJsonDelta items after it, the ContentBlockStop that closes it), with
\* the id and name of its ToolUseStart and the input parsed from the
\* concatenation of exactly its fragments.
C31_OneToolUsePerStreamBlock ==
    [][(/\ turn.pc = "loop"
        /\ turn'.iteration = turn.iteration + 1
        /\ turn'.last.stream_ok)
        => LET items == turn'.last.items
               blocks == ToolUseBlocks(items)
               uses == ToolUsesOf(turn'.messages[Len(turn'.messages) - 1].content)
           IN /\ Len(uses) = Len(blocks)
              /\ \A k \in DOMAIN blocks :
                    /\ uses[k].id = items[blocks[k].start].id
                    /\ uses[k].name = items[blocks[k].start].name
                    /\ uses[k].input = parse_input(FragmentsOf(items, blocks[k]))]_vars

\* C31 witness: the assistant message synthesized from a stream with the
\* tool-use blocks t1, of one fragment, and t2 holds the ToolUse blocks t1,
\* with the object parsed from that fragment, and t2, after its text.
C31_Witness ==
    /\ turn.pc = "loop"
    /\ turn.iteration = 1
    /\ turn.last.stream_ok
    /\ turn.last.items = StreamResults[7].items
    /\ Len(turn.messages[2].content) = 3
    /\ turn.messages[2].content[2] = ToolUseWithInput("t1", "echo", Value_Object(<<"\"x\":1">>))
    /\ turn.messages[2].content[3].id = "t2"

\* C32: when the accumulated input JSON of a streamed tool call does not
\* parse, the ToolUse block synthesized for it has the empty JSON object as
\* its input, and the tool, when registered, is executed with the empty JSON
\* object.
C32_UnparsableInputIsEmptyObject ==
    [][(/\ turn.pc = "loop"
        /\ turn'.iteration = turn.iteration + 1
        /\ turn'.last.stream_ok)
        => LET items == turn'.last.items
               blocks == ToolUseBlocks(items)
               uses == ToolUsesOf(turn'.messages[Len(turn'.messages) - 1].content)
           IN \A k \in DOMAIN blocks :
                 ~from_str(FragmentsOf(items, blocks[k])).ok
                 => /\ uses[k].input = Value_Object(<<>>)
                    /\ \A x \in DOMAIN turn'.last.executed :
                          turn'.last.executed[x].id = uses[k].id
                          => turn'.last.executed[x].input = Value_Object(<<>>)]_vars

\* C40: when a streaming turn returns Ok, the texts sent on delta_tx, one
\* after another, are exactly the text returned: the deltas of every streamed
\* response, the separator after each streamed tool round, and the final text
\* of a fallback response.
C40_DeltasAreTheReturnedText ==
    (turn.pc = "done" /\ turn.result.kind = "ok") => turn.deltas = turn.result.text

C40_Witness ==
    /\ turn.pc = "done"
    /\ turn.result.kind = "ok"
    /\ turn.last.fallback_calls = 1
    /\ Len(turn.deltas) >= 3
    /\ \E i \in DOMAIN turn.deltas : turn.deltas[i] = "\n\n"

----------------------------------------------------------------------------
(* The credential vault (opencrust-security, credentials.rs).

   The vault file on disk is turn.file, the CredentialVault value the caller
   holds is turn.vault, and ret is the result of the last call.  The
   cryptography is symbolic: a derived key is the record of what PBKDF2 was
   given, a ciphertext is the record of key, nonce and plaintext, and
   open_in_place authenticates exactly when key and nonce are the sealing
   ones.  What is NOT symbolic is the way HMAC takes its key: PBKDF2-HMAC
   uses the passphrase as the HMAC key, and HMAC pads a key shorter than its
   block with zero bytes.                                                   *)

PBKDF2_ITERATIONS == 600000

NUL == 0

\* passphrases, as the bytes of the &str
Passphrases == {<<97>>, <<97, NUL>>, <<98>>, <<97, 98>>}

Salts == {1, 2}

Nonces == {1, 2}

VaultKeys == {"ANTHROPIC_API_KEY", "OPENAI_API_KEY"}

VaultValues == {"sk-1", "sk-2"}

\* the HMAC key of a secret: a secret longer than the 64-byte block of
\* SHA-256 is hashed, a shorter one is padded with zero bytes to the block
hmac_key(secret) ==
    IF Len(secret) > 64
        THEN <<"sha256", secret>>
        ELSE [i \in 1..64 |-> IF i <= Len(secret) THEN secret[i] ELSE NUL]

derive_key(passphrase, salt) ==
    [algorithm |-> "PBKDF2_HMAC_SHA256",
     iterations |-> PBKDF2_ITERATIONS,
     salt |-> salt,
     secret |-> hmac_key(passphrase)]

\* key.seal_in_place_append_tag(nonce, Aad::empty(), &mut in_out)
seal_in_place_append_tag(key, nonce, plaintext) ==
    [key |-> key, nonce |-> nonce, plaintext |-> plaintext]

\* key.open_in_place(nonce, Aad::empty(), &mut ciphertext)
open_in_place(key, nonce, ciphertext) ==
    IF ciphertext.key = key /\ ciphertext.nonce = nonce
        THEN [ok |-> TRUE, plaintext |-> ciphertext.plaintext]
        ELSE [ok |-> FALSE, plaintext |-> <<>>]

\* BASE64.encode / BASE64.decode
BASE64_encode(bytes) == <<"base64", bytes>>

BASE64_decode(text) == text[2]

\* serde_json::to_vec(&self.entries): the object's members, one after
\* another
RECURSIVE to_vec(_)
to_vec(entries) ==
    IF DOMAIN entries = {}
        THEN <<>>
        ELSE LET k == CHOOSE x \in DOMAIN entries : TRUE
             IN  <<<<k, entries[k]>>>> \o to_vec([x \in DOMAIN entries \ {k} |-> entries[x]])

\* serde_json::from_slice(plaintext): HashMap<String, String>
from_slice(plaintext) ==
    [k \in {plaintext[i][1] : i \in DOMAIN plaintext} |->
        LET i == CHOOSE j \in DOMAIN plaintext :
                    /\ plaintext[j][1] = k
                    /\ \A l \in DOMAIN plaintext : plaintext[l][1] = k => l <= j
        IN  plaintext[i][2]]

NoEntries == [k \in {} |-> ""]

NoFile == [exists |-> FALSE]

NoVault == [held |-> FALSE]

\* save(): the VaultFile written for a vault, under a fresh nonce
VaultFile(vault, nonce) ==
    [exists |-> TRUE,
     salt |-> BASE64_encode(vault.salt),
     nonce |-> BASE64_encode(nonce),
     ciphertext |-> BASE64_encode(
         seal_in_place_append_tag(vault.derived_key, nonce, to_vec(vault.entries)))]

\* CredentialVault::open(path, passphrase)
open(file, passphrase) ==
    IF ~file.exists
        THEN [ok |-> FALSE, error |-> "Io", entries |-> NoEntries]
        ELSE LET salt == BASE64_decode(file.salt)
                 nonce_bytes == BASE64_decode(file.nonce)
                 ciphertext == BASE64_decode(file.ciphertext)
                 derived_key == derive_key(passphrase, salt)
                 opened == open_in_place(derived_key, nonce_bytes, ciphertext)
             IN  IF opened.ok
                     THEN [ok |-> TRUE, error |-> "", entries |-> from_slice(opened.plaintext)]
                     ELSE [ok |-> FALSE, error |-> "WrongPassphrase", entries |-> NoEntries]

VaultIdle == [file |-> NoFile, vault |-> NoVault, passphrase |-> <<>>, saved |-> NoEntries]

VaultInit ==
    /\ sessions = {}
    /\ tasks = <<>>
    /\ now = 0
    /\ polled = <<>>
    /\ turn = VaultIdle
    /\ ret = [op |-> "none"]

\* CredentialVault::create(path, passphrase): a new vault with a fresh salt
\* and no entries, saved at once
VaultCreate ==
    \E passphrase \in Passphrases, salt \in Salts, nonce \in Nonces :
        IF turn.file.exists
            THEN /\ ret' = [op |-> "create", ok |-> FALSE, error |-> "AlreadyExists"]
                 /\ UNCHANGED <<storeVars, turn>>
            ELSE LET vault == [held |-> TRUE,
                               derived_key |-> derive_key(passphrase, salt),
                               salt |-> salt,
                               entries |-> NoEntries]
                 IN  /\ turn' = [file |-> VaultFile(vault, nonce),
                                 vault |-> vault,
                                 passphrase |-> passphrase,
                                 saved |-> NoEntries]
                     /\ ret' = [op |-> "create", ok |-> TRUE, error |-> ""]
                     /\ UNCHANGED storeVars

\* vault.set(key, value)
VaultSet ==
    /\ turn.vault.held
    /\ \E key \in VaultKeys, value \in VaultValues :
          LET entries == turn.vault.entries
          IN  turn' = [turn EXCEPT !.vault.entries =
                          [k \in DOMAIN entries \cup {key} |->
                              IF k = key THEN value ELSE entries[k]]]
    /\ ret' = [op |-> "set"]
    /\ UNCHANGED storeVars

\* vault.save()
VaultSave ==
    /\ turn.vault.held
    /\ \E nonce \in Nonces :
          turn' = [turn EXCEPT !.file = VaultFile(turn.vault, nonce),
                               !.saved = turn.vault.entries]
    /\ ret' = [op |-> "save", ok |-> TRUE, error |-> ""]
    /\ UNCHANGED storeVars

\* CredentialVault::open(path, passphrase), by any caller
VaultOpen ==
    /\ \E passphrase \in Passphrases :
          LET opened == open(turn.file, passphrase)
          IN  ret' = [op |-> "open", passphrase |-> passphrase, ok |-> opened.ok,
                      error |-> opened.error, entries |-> opened.entries]
    /\ UNCHANGED <<storeVars, turn>>

VaultNext ==
    \/ VaultCreate
    \/ VaultSet
    \/ VaultSave
    \/ VaultOpen

SpecVault == VaultInit /\ [][VaultNext]_vars

----------------------------------------------------------------------------
(* Claims checked under SpecVault *)

\* C34: for a vault created with passphrase p, filled by set and saved,
\* open(q) succeeds and holds exactly the saved entries when q = p, and fails
\* with WrongPassphrase for every q other than p.
C34_VaultRoundTrip ==
    (ret.op = "open" /\ turn.file.exists) =>
        IF ret.passphrase = turn.passphrase
            THEN ret.ok /\ ret.entries = turn.saved
            ELSE ~ret.ok /\ ret.error = "WrongPassphrase"

\* the round trip with the passphrase of creation alone
C34_SamePassphraseOpens ==
    (ret.op = "open" /\ turn.file.exists /\ ret.passphrase = turn.passphrase) =>
        ret.ok /\ ret.entries = turn.saved

C34_Witness ==
    /\ ret.op = "open"
    /\ turn.file.exists
    /\ DOMAIN turn.saved = VaultKeys
    /\ ret.passphrase = turn.passphrase
    /\ ret.ok

----------------------------------------------------------------------------
(* SpecSched: the scheduler's poller and the turns of the Agent Runtime
   around one Session Store.

   turn.pc is "idle", "human" (a human-initiated message is being handled),
   "heartbeat" (process_heartbeat runs for the first polled task) or
   "completed" (the heartbeat returned Ok and complete_task was called).
   turn.context is the ToolContext the running turn hands to its tools and
   turn.task the polled row the scheduler is working on.  The poller handles
   the polled batch in order and polls again when the batch is used up.     *)

SchedTasks == 3        \* rows of scheduled_tasks in SpecSched

ToolContext(session_id, heartbeat_depth) ==
    [session_id |-> session_id, heartbeat_depth |-> heartbeat_depth]

\* the ToolContext of the tool loop of process_message_impl
process_message_impl(session_id, heartbeat_depth) ==
    ToolContext(session_id, heartbeat_depth)

\* the ToolContext of the tool loop of process_message_summarized_impl
process_message_summarized_impl(session_id, heartbeat_depth) ==
    ToolContext(session_id, heartbeat_depth)

\* the streaming loops and the agent-config loops build their ToolContext
\* with heartbeat_depth: 0
process_message_streaming_impl(session_id) == ToolContext(session_id, 0)

process_message_with_agent_config(session_id) == ToolContext(session_id, 0)

\* the public entry points other than process_heartbeat
HumanEntryPoints ==
    {"process_message_with_context", "process_message_with_blocks",
     "process_message_with_context_and_summary",
     "process_message_with_blocks_and_summary",
     "process_message_streaming", "process_message_with_agent_config"}

human_context(entry, session_id) ==
    CASE entry \in {"process_message_with_context", "process_message_with_blocks"} ->
             process_message_impl(session_id, 0)
      [] entry \in {"process_message_with_context_and_summary",
                    "process_message_with_blocks_and_summary"} ->
             process_message_summarized_impl(session_id, 0)
      [] entry = "process_message_streaming" ->
             process_message_streaming_impl(session_id)
      [] OTHER -> process_message_with_agent_config(session_id)

process_heartbeat_at_depth_zero(session_id, heartbeat_depth) ==
    process_message_impl(session_id, 0)

process_heartbeat(session_id, heartbeat_depth) ==
    process_message_impl(session_id, heartbeat_depth)

NoTask == [id |-> 0]

SchedIdle == [pc |-> "idle", context |-> ToolContext("", 0), task |-> NoTask]

SchedInit ==
    /\ sessions = {"s1"}
    /\ tasks = <<>>
    /\ now = 0
    /\ polled = <<>>
    /\ ret = [op |-> "init"]
    /\ turn = SchedIdle

\* a human-initiated message of session s1 arrives at one of the entry points
HumanStart ==
    /\ turn.pc = "idle"
    /\ \E entry \in HumanEntryPoints :
          turn' = [pc |-> "human", context |-> human_context(entry, "s1"), task |-> NoTask]
    /\ ret' = [op |-> "process_message"]
    /\ UNCHANGED storeVars

\* The human turn starts the one chain of the scenario, with a one-shot or a
\* recurring heartbeat; the heartbeats go on with one-shot heartbeats.
SchedRecurrences(pc) ==
    IF pc = "human" THEN {<<"none", 0>>, <<"interval", 30>>} ELSE {<<"none", 0>>}

\* the running turn executes schedule_heartbeat with its ToolContext
ToolSchedule ==
    /\ turn.pc \in {"human", "heartbeat"}
    /\ turn.pc = "human" => tasks = <<>>
    /\ \E r \in SchedRecurrences(turn.pc) :
          schedule_heartbeat(turn.context.session_id, turn.context.heartbeat_depth,
                             30, r[1], r[2], NULL, "none", SchedTasks)

\* the running turn executes cancel_heartbeat with its ToolContext
ToolCancel ==
    /\ turn.pc \in {"human", "heartbeat"}
    /\ \E id \in DOMAIN tasks : cancel_task(id, turn.context.session_id)

HumanEnd ==
    /\ turn.pc = "human"
    /\ turn' = SchedIdle
    /\ ret' = [op |-> "process_message", result |-> "Ok"]
    /\ UNCHANGED storeVars

\* step 1: poll_due_tasks()
SchedulerPoll ==
    /\ turn.pc = "idle"
    /\ polled = <<>>
    /\ PollDueTasks

\* step 2, no channel sender binding for the task: fail_task and continue
SchedulerNoChannel ==
    /\ turn.pc = "idle"
    /\ polled # <<>>
    /\ tasks' = fail_task_update(Head(polled).id)
    /\ polled' = Tail(polled)
    /\ ret' = [op |-> "fail_task", id |-> Head(polled).id]
    /\ UNCHANGED <<sessions, now, turn>>

\* step 3: process_heartbeat(session_id, payload, .., heartbeat_depth =
\* task.heartbeat_depth)
SchedulerHeartbeat ==
    /\ turn.pc = "idle"
    /\ polled # <<>>
    /\ LET task == Head(polled)
       IN  turn' = [pc |-> "heartbeat",
                    context |-> process_heartbeat(task.session_id, task.heartbeat_depth),
                    task |-> task]
    /\ ret' = [op |-> "process_heartbeat"]
    /\ UNCHANGED storeVars

\* step 4, on Ok: deliver the text; complete_task(id)
SchedulerComplete ==
    /\ turn.pc = "heartbeat"
    /\ tasks' = IF complete_task_where(turn.task.id)
                THEN [tasks EXCEPT ![turn.task.id].status = "completed"]
                ELSE tasks
    /\ ret' = [op |-> "complete_task", id |-> turn.task.id,
               result |-> complete_task_where(turn.task.id)]
    /\ turn' = [turn EXCEPT !.pc = "completed"]
    /\ UNCHANGED <<sessions, now, polled>>

\* step 4, after complete_task: if recurrence, reschedule_recurring_task(task)
\* (which itself returns None for a task without recurrence)
SchedulerReschedule ==
    /\ turn.pc = "completed"
    /\ reschedule_recurring_task(turn.task, SchedTasks)
    /\ polled' = Tail(polled)
    /\ turn' = SchedIdle
    /\ UNCHANGED <<sessions, now>>

\* step 5, on Err: retry_or_fail_task(id)
SchedulerRetry ==
    /\ turn.pc = "heartbeat"
    /\ LET id == turn.task.id
           retry_count == tasks[id].retry_count
           retried == retry_allowed(retry_count + 1, tasks[id].max_retries)
       IN  /\ tasks' = IF retried
                       THEN [tasks EXCEPT ![id].retry_count = retry_count + 1,
                                          ![id].next_retry_at =
                                              now + Secs(backoff_secs(retry_count))]
                       ELSE fail_task_update(id)
           /\ ret' = [op |-> "retry_or_fail_task", id |-> id, result |-> retried]
    /\ polled' = Tail(polled)
    /\ turn' = SchedIdle
    /\ UNCHANGED <<sessions, now>>

SchedTick == Tick({0, 30, 60, 90})

SchedNext ==
    \/ HumanStart
    \/ ToolSchedule
    \/ ToolCancel
    \/ HumanEnd
    \/ SchedulerPoll
    \/ SchedulerNoChannel
    \/ SchedulerHeartbeat
    \/ SchedulerComplete
    \/ SchedulerReschedule
    \/ SchedulerRetry
    \/ SchedTick

SpecSched == SchedInit /\ [][SchedNext]_vars

----------------------------------------------------------------------------
(* Claims checked under SpecSched *)

\* C33: the tools of a turn that handles a human-initiated message receive
\* ToolContext.heartbeat_depth = 0, whatever the entry point, and the tools of
\* a turn started by process_heartbeat receive the heartbeat_depth of the
\* task being executed, as its row holds it.
C33_ToolContextDepth ==
    /\ turn.pc = "human" => turn.context.heartbeat_depth = 0
    /\ turn.pc = "heartbeat" =>
          /\ turn.context.heartbeat_depth = tasks[turn.task.id].heartbeat_depth
          /\ (ret.op = "schedule_heartbeat" =>
                 ret.depth = tasks[turn.task.id].heartbeat_depth)

C33_Witness ==
    /\ turn.pc = "heartbeat"
    /\ tasks[turn.task.id].heartbeat_depth = 2
    /\ ret.op = "schedule_heartbeat"
    /\ ret.depth = 2

\* C39: counting from the human-initiated message, the task a human turn
\* schedules is the first of its chain (depth 1), the task scheduled while the
\* heartbeat of a task runs is one further than that task, and no task is
\* further than the third: schedule_heartbeat called by the heartbeat of a
\* depth-3 task returns an error and inserts nothing.
C39_ChainOfAtMostThree ==
    [][ret'.op = "schedule_heartbeat" =>
           /\ (turn.pc = "heartbeat" /\ turn.task.heartbeat_depth >= MAX_HEARTBEAT_DEPTH) =>
                  (ret'.is_error /\ tasks' = tasks)
           /\ ~ret'.is_error =>
                  LET new == tasks'[Len(tasks')]
                  IN  /\ Len(tasks') = Len(tasks) + 1
                      /\ new.heartbeat_depth <= MAX_HEARTBEAT_DEPTH
                      /\ new.heartbeat_depth =
                            IF turn.pc = "human" THEN 1 ELSE turn.task.heartbeat_depth + 1
       ]_vars

C39_Witness ==
    /\ turn.pc = "heartbeat"
    /\ turn.task.heartbeat_depth = MAX_HEARTBEAT_DEPTH
    /\ ret.op = "schedule_heartbeat"
    /\ ret.is_error
    /\ ret.error = DepthLimitMessage

\* C37: the scheduler creates no successor for a recurring task that
\* cancel_task has cancelled, whenever the cancellation happened.
C37_NoSuccessorAfterCancel ==
    [][(ret'.op = "reschedule_recurring_task" /\ ret'.result # NULL) =>
           tasks[ret'.id].status # "cancelled"]_vars

----------------------------------------------------------------------------
(* SpecLock: schedule_heartbeat calls running concurrently on the one
   Arc<Mutex<SessionStore>>.

   Each call is a task of the async runtime that goes through execute step
   by step: the checks before the lock, self.store.lock().await, the count
   of the session's pending tasks, the insert, and the return that drops the
   guard.  turn.holder is the call that holds the mutex (0 when it is free)
   and turn.calls the position and the locals of each call.  Session s1
   starts one short of its quota.                                           *)

ConcurrentCalls == 2   \* schedule_heartbeat calls in flight in SpecLock

Calls == 1..ConcurrentCalls

lock_free_always(holder) == TRUE

\* self.store.lock().await goes on when no other task holds the guard
lock_free(holder) == holder = 0

CallIdle == [pc |-> "idle", session_id |-> "", depth |-> 0, pending |-> 0, result |-> "none"]

LockIdle == [holder |-> 0, calls |-> [c \in Calls |-> CallIdle]]

LockInit ==
    /\ sessions = Sessions
    /\ tasks = [i \in 1..QuotaPrefill |->
                   [session_id |-> "s1",
                    execute_at |-> Secs(60),
                    status |-> "pending",
                    retry_count |-> 0,
                    max_retries |-> DEFAULT_MAX_RETRIES,
                    next_retry_at |-> NULL,
                    heartbeat_depth |-> 1,
                    recurrence_type |-> "none",
                    recurrence_value |-> 0,
                    recurrence_end_at |-> NULL,
                    timezone |-> "none"]]
    /\ now = 0
    /\ polled = <<>>
    /\ ret = [op |-> "init"]
    /\ turn = LockIdle

\* execute is entered: the depth check and the parsing of the arguments,
\* before the store is touched
CallBegin(c) ==
    /\ turn.calls[c].pc = "idle"
    /\ \E s \in Sessions, depth \in {0, MAX_HEARTBEAT_DEPTH} :
          turn' = [turn EXCEPT !.calls[c] =
                      IF depth_limit_reached(depth)
                          THEN [CallIdle EXCEPT !.pc = "returned", !.session_id = s,
                                                !.depth = depth, !.result = "Err"]
                          ELSE [CallIdle EXCEPT !.pc = "waiting", !.session_id = s,
                                                !.depth = depth]]
    /\ ret' = [op |-> "execute", call |-> c]
    /\ UNCHANGED storeVars

\* let store = self.store.lock().await;
CallLock(c) ==
    /\ turn.calls[c].pc = "waiting"
    /\ lock_free(turn.holder)
    /\ turn' = [turn EXCEPT !.holder = c, !.calls[c].pc = "locked"]
    /\ ret' = [op |-> "lock", call |-> c]
    /\ UNCHANGED storeVars

\* let pending = store.count_pending_tasks_for_session(&context.session_id)?;
\* if pending >= MAX_PENDING_PER_SESSION { return Err(..) }   (the guard is dropped)
CallCount(c) ==
    /\ turn.calls[c].pc = "locked"
    /\ LET session_id == turn.calls[c].session_id
           pending == count_pending_tasks_for_session(session_id)
       IN  turn' = IF quota_reached(session_id)
                       THEN [turn EXCEPT !.holder = IF @ = c THEN 0 ELSE @,
                                         !.calls[c].pc = "returned",
                                         !.calls[c].pending = pending,
                                         !.calls[c].result = "Err"]
                       ELSE [turn EXCEPT !.calls[c].pc = "counted",
                                         !.calls[c].pending = pending]
    /\ ret' = [op |-> "count_pending_tasks_for_session", call |-> c]
    /\ UNCHANGED storeVars

\* let task_id = store.schedule_task_full(..)?;
CallInsert(c) ==
    /\ turn.calls[c].pc = "counted"
    /\ tasks' = schedule_task_full(turn.calls[c].session_id, now + Secs(30),
                                   next_depth(turn.calls[c].depth), "none", 0, NULL, "none")
    /\ turn' = [turn EXCEPT !.calls[c].pc = "inserted"]
    /\ ret' = [op |-> "schedule_task_full", call |-> c, id |-> Len(tasks) + 1]
    /\ UNCHANGED <<sessions, now, polled>>

\* Ok(ToolOutput::success(msg)): the guard is dropped as execute returns
CallReturn(c) ==
    /\ turn.calls[c].pc = "inserted"
    /\ turn' = [turn EXCEPT !.holder = IF @ = c THEN 0 ELSE @,
                            !.calls[c].pc = "returned",
                            !.calls[c].result = "Ok"]
    /\ ret' = [op |-> "schedule_heartbeat", call |-> c]
    /\ UNCHANGED storeVars

LockBegin == \E c \in Calls : CallBegin(c)

LockAcquire == \E c \in Calls : CallLock(c)

LockCount == \E c \in Calls : CallCount(c)

LockInsert == \E c \in Calls : CallInsert(c)

LockReturn == \E c \in Calls : CallReturn(c)

LockNext ==
    \/ LockBegin
    \/ LockAcquire
    \/ LockCount
    \/ LockInsert
    \/ LockReturn

SpecLock == LockInit /\ [][LockNext]_vars

----------------------------------------------------------------------------
(* Claims checked under SpecLock *)

InStore(c) == turn.calls[c].pc \in {"locked", "counted", "inserted"}

\* C36: of the schedule_heartbeat calls that run concurrently for a session
\* with 19 pending tasks at most one succeeds, the session never has more
\* than 20 pending tasks, and no call is between its lock and its return
\* (its count and its insert) while another call is.
C36_CheckAndInsertAreAtomic ==
    /\ \A c, d \in Calls : (c # d /\ InStore(c)) => ~InStore(d)
    /\ Cardinality({c \in Calls : /\ turn.calls[c].session_id = "s1"
                                  /\ turn.calls[c].pc \in {"inserted", "returned"}
                                  /\ turn.calls[c].result # "Err"}) <= 1
    /\ count_pending_tasks_for_session("s1") <= MAX_PENDING_PER_SESSION

C36_Witness ==
    /\ \A c \in Calls : turn.calls[c].pc = "returned" /\ turn.calls[c].session_id = "s1"
                        /\ turn.calls[c].depth = 0
    /\ \E c \in Calls : turn.calls[c].result = "Ok"
    /\ \E c \in Calls : turn.calls[c].result = "Err" /\ turn.calls[c].pending = MAX_PENDING_PER_SESSION

----------------------------------------------------------------------------
(* SpecSse: the stream parser of the OpenAI-compatible provider
   (openai.rs, SseParser).

   The bytes of the response body are a sequence of tokens: a token is a
   line break, a carriage return, or the text of one line, given by its
   field prefix and what follows it.  turn.parser holds the parser (the
   chunks the body stream has still to deliver, the buffer, the queue);
   ret is what the last poll_next returned.  Each queued item carries
   after_done, which records whether a `data: [DONE]` line had been parsed
   before the line the item comes from.                                     *)

MaxChunks == 3         \* chunks of a response body in SpecSse

LF == [field |-> "\n", rest |-> ""]

CR == [field |-> "\r", rest |-> ""]

DataLine(data) == [field |-> "data: ", rest |-> data]

EventLine == [field |-> "event: ", rest |-> "message"]

\* the chunks reqwest's bytes_stream delivers: Ok(bytes) or Err
BodyChunk(bytes) == [ok |-> TRUE, bytes |-> bytes]

BodyErr == [ok |-> FALSE, bytes |-> <<>>]

BodyChunks ==
    {BodyChunk(<<DataLine("{content:a}"), LF, LF>>),
     BodyChunk(<<DataLine("[DONE]"), LF, LF>>),
     BodyChunk(<<DataLine("{content:b,finish:stop}"), CR, LF, CR, LF>>),
     BodyChunk(<<EventLine, LF, DataLine("{finish:stop}"), LF>>),
     BodyChunk(<<LF, DataLine("oops"), LF, DataLine(" [DONE] "), LF, DataLine("{content:a}"), LF, LF>>),
     BodyErr}

Bodies == UNION {[1..n -> BodyChunks] : n \in 1..MaxChunks}

\* self.buffer.windows(n).position(|w| w == delimiter); 0 when there is none
position(buffer, delimiter) ==
    LET n == Len(delimiter)
        at == {p \in 1..(Len(buffer) - n + 1) : SubSeq(buffer, p, p + n - 1) = delimiter}
    IN  IF at = {} THEN 0 ELSE CHOOSE p \in at : \A q \in at : p <= q

\* msg_str.lines(): the lines between line breaks, a carriage return at the
\* end of a line dropped
RECURSIVE lines(_)
lines(msg) ==
    IF msg = <<>> THEN <<>>
    ELSE LET p == position(msg, <<LF>>)
             raw == IF p = 0 THEN msg ELSE SubSeq(msg, 1, p - 1)
             line == IF raw # <<>> /\ raw[Len(raw)] = CR
                         THEN SubSeq(raw, 1, Len(raw) - 1) ELSE raw
             rest == IF p = 0 THEN <<>> ELSE SubSeq(msg, p + 1, Len(msg))
         IN  <<line>> \o lines(rest)

\* line.strip_prefix("data: ")
strip_prefix(line) ==
    IF line # <<>> /\ line[1].field = "data: " THEN Some(line[1].rest) ELSE None

\* data.trim()
trim(data) == IF data = " [DONE] " THEN "[DONE]" ELSE data

\* data.trim() == "[DONE]"
is_done(data) == trim(data) = "[DONE]"

\* serde_json::from_str::<OpenAiStreamChunk>(data)
OpenAiStreamChunk(data) ==
    CASE data = "{content:a}" ->
             [ok |-> TRUE, content |-> Some("a"), finish_reason |-> None]
      [] data = "{content:b,finish:stop}" ->
             [ok |-> TRUE, content |-> Some("b"), finish_reason |-> Some("stop")]
      [] data = "{finish:stop}" ->
             [ok |-> TRUE, content |-> None, finish_reason |-> Some("stop")]
      [] OTHER -> [ok |-> FALSE, content |-> None, finish_reason |-> None]

LlmStreamResponse(text, stop_reason) ==
    [ok |-> TRUE, delta |-> text, stop_reason |-> stop_reason]

\* the items pushed on the queue for one line of a message
items_of_line(line) ==
    LET data == strip_prefix(line)
        chunk == OpenAiStreamChunk(data.text)
    IN  IF ~data.some \/ is_done(data.text) THEN <<>>
        ELSE IF ~chunk.ok
            THEN <<[ok |-> FALSE, delta |-> "JSON parse error", stop_reason |-> None]>>
        ELSE IF chunk.content.some
            THEN <<LlmStreamResponse(chunk.content.text, chunk.finish_reason)>>
        ELSE IF chunk.finish_reason.some
            THEN <<LlmStreamResponse("", chunk.finish_reason)>>
        ELSE <<>>

\* whether the line is a `data: [DONE]` line
done_line(line) == strip_prefix(line).some /\ trim(strip_prefix(line).text) = "[DONE]"

\* the lines of one message, pushed in order; done tells whether a [DONE]
\* line came before
RECURSIVE push_lines(_, _, _)
push_lines(ls, queue, done) ==
    IF ls = <<>> THEN [queue |-> queue, done |-> done]
    ELSE LET items == items_of_line(Head(ls))
             tagged == [i \in DOMAIN items |-> [item |-> items[i], after_done |-> done]]
         IN  push_lines(Tail(ls), queue \o tagged, done \/ done_line(Head(ls)))

\* the inner loop: every complete message of the buffer is taken out of it
RECURSIVE drain_messages(_)
drain_messages(parser) ==
    LET lf == position(parser.buffer, <<LF, LF>>)
        crlf == position(parser.buffer, <<CR, LF, CR, LF>>)
        p == IF lf # 0 THEN lf ELSE crlf
        len == IF lf # 0 THEN 2 ELSE 4
    IN  IF p = 0 THEN parser
        ELSE LET msg == SubSeq(parser.buffer, 1, p - 1)
                 pushed == push_lines(lines(msg), parser.queue, parser.done)
             IN  drain_messages([parser EXCEPT
                     !.buffer = SubSeq(@, p + len, Len(@)),
                     !.queue = pushed.queue,
                     !.done = pushed.done])

\* SseParser::poll_next, up to its return: Ready(Some(item)) or Ready(None)
RECURSIVE poll_next(_)
poll_next(parser) ==
    IF parser.queue # <<>>
        THEN [parser |-> [parser EXCEPT !.queue = Tail(@)],
              ready |-> "Some", item |-> Head(parser.queue)]
    ELSE IF parser.stream = <<>>
        THEN [parser |-> parser, ready |-> "None",
              item |-> [item |-> LlmStreamResponse("", None), after_done |-> parser.done]]
    ELSE IF ~Head(parser.stream).ok
        THEN [parser |-> [parser EXCEPT !.stream = Tail(@)],
              ready |-> "Some",
              item |-> [item |-> [ok |-> FALSE, delta |-> "Stream error", stop_reason |-> None],
                        after_done |-> FALSE]]
    ELSE poll_next(drain_messages([parser EXCEPT
             !.stream = Tail(@),
             !.buffer = @ \o Head(parser.stream).bytes]))

\* SseParser::new(stream)
SseParser(stream) == [stream |-> stream, buffer |-> <<>>, queue |-> <<>>, done |-> FALSE]

SseInit ==
    /\ sessions = {}
    /\ tasks = <<>>
    /\ now = 0
    /\ polled = <<>>
    /\ \E body \in Bodies : turn = [parser |-> SseParser(body), ended |-> FALSE]
    /\ ret = [op |-> "complete_stream"]

\* the consumer polls the stream once more
PollNext ==
    /\ ~turn.ended
    /\ LET polled_next == poll_next(turn.parser)
       IN  /\ turn' = [parser |-> polled_next.parser, ended |-> polled_next.ready = "None"]
           /\ ret' = [op |-> "poll_next", ready |-> polled_next.ready,
                      item |-> polled_next.item.item,
                      after_done |-> polled_next.item.after_done]
    /\ UNCHANGED storeVars

SseNext == PollNext

SpecSse == SseInit /\ [][SseNext]_vars

----------------------------------------------------------------------------
(* Claims checked under SpecSse *)

\* C35: the parser stops at `data: [DONE]`: poll_next never returns an item
\* that comes from a line after a [DONE] line.
C35_NothingEmittedAfterDone ==
    (ret.op = "poll_next" /\ ret.ready = "Some") => ~ret.after_done

----------------------------------------------------------------------------
(* SpecLive: the scheduler's poller under fairness.

   The poller of SpecSched, with tasks scheduled at time 0 for s1, which has
   a row in sessions, and for s2, which has none, one-shot or recurring with
   an end.  The poller keeps ticking: each of its steps is taken when it
   stays possible (a poll, the start of the work on a polled task, the
   return of its heartbeat as Ok or as Err, the rescheduling).  Time
   advances: when the poller has nothing left to do at the present time the
   clock moves on to the next time at which a pending task is due.          *)

LiveRoots == 2         \* tasks scheduled through the tool in SpecLive

\* every scheduled task has at most one successor before its recurrence ends
LiveCap == 2 * LiveRoots

\* schedule_heartbeat executed by a turn of s1 or of s2, at time 0
LiveSchedule ==
    /\ now = 0
    /\ Len(tasks) < LiveRoots
    /\ \E s \in Sessions, r \in {<<"none", 0, NULL>>, <<"interval", 30, 30>>} :
          schedule_heartbeat(s, 0, 30, r[1], r[2], r[3], "none", LiveCap)

\* cancel_heartbeat executed by a turn of the task's session
LiveCancel == \E id \in DOMAIN tasks : cancel_task(id, tasks[id].session_id)

\* the times, later than now, at which a pending task is due
LiveDueTimes ==
    {due_at(tasks[i]) : i \in {j \in DOMAIN tasks :
        tasks[j].status = "pending" /\ due_at(tasks[j]) > now}}

LiveTick ==
    /\ turn.pc = "idle"
    /\ polled = <<>>
    /\ poll_due_tasks = <<>>
    /\ LiveDueTimes # {}
    /\ now' = CHOOSE t \in LiveDueTimes : \A u \in LiveDueTimes : t <= u
    /\ ret' = [op |-> "tick"]
    /\ UNCHANGED <<sessions, tasks, polled, turn>>

LiveNext ==
    \/ LiveSchedule
    \/ LiveCancel
    \/ SchedulerPoll
    \/ SchedulerNoChannel
    \/ SchedulerHeartbeat
    \/ SchedulerComplete
    \/ SchedulerReschedule
    \/ SchedulerRetry
    \/ LiveTick

LiveFairness ==
    /\ WF_vars(SchedulerPoll)
    /\ WF_vars(SchedulerHeartbeat \/ SchedulerNoChannel)
    /\ WF_vars(SchedulerComplete \/ SchedulerRetry)
    /\ WF_vars(SchedulerReschedule)
    /\ WF_vars(LiveTick)

SpecLive == SchedInit /\ [][LiveNext]_vars /\ LiveFairness

----------------------------------------------------------------------------
(* Claims checked under SpecLive *)

PendingPastDue(i) ==
    /\ i \in DOMAIN tasks
    /\ tasks[i].status = "pending"
    /\ tasks[i].execute_at <= now

LeftPending(i) == i \in DOMAIN tasks /\ tasks[i].status # "pending"

\* C38 as stated: with the poller ticking and time advancing, every pending
\* task whose due time has passed eventually leaves the pending status.
C38_PendingTaskEventuallyLeaves ==
    \A i \in 1..LiveCap : PendingPastDue(i) ~> LeftPending(i)

\* C38, amended: with the poller ticking and time advancing, every pending
\* task whose due time has passed and whose session has a row in sessions
\* eventually leaves the pending status (completed, failed or cancelled).
C38_PendingTaskOfKnownSessionLeaves ==
    \A i \in 1..LiveCap :
        (PendingPastDue(i) /\ tasks[i].session_id \in sessions) ~> LeftPending(i)

C38_Witness ==
    \E i \in DOMAIN tasks :
        /\ tasks[i].session_id \in sessions
        /\ tasks[i].status = "failed"
        /\ tasks[i].retry_count = tasks[i].max_retries
        /\ ret.op = "retry_or_fail_task"
        /\ ret.id = i
        /\ ~ret.result

====
